---- MODULE Spec2Model ----
(***************************************************************************)
(* Verification model of the adonese/temporal teaching repository.         *)
(*                                                                         *)
(* Part I  : the orchestration routines (GetAddressFromIP and its          *)
(*           variants) running on a durable-execution engine that records  *)
(*           a command history and replays it after a worker restart.      *)
(* Part II : IPMonitorWorkflow (signals, queries, selector loop) and       *)
(*           IPLookupWorkflow (query handlers).                            *)
(*                                                                         *)
(* The engine (go.temporal.io/sdk) is modelled by what the routines see    *)
(* of it: ExecuteActivity/Future.Get, Sleep/NewTimer, GetVersion,          *)
(* Selector.Select, signal channels, query handlers, cancellation of the   *)
(* root context, and replay of the recorded history.                       *)
(***************************************************************************)
EXTENDS Integers, Sequences, FiniteSets, TLC

VARIABLES
    \* ---- Part I: one orchestration instance and its worker ----
    code,             \* routine code currently deployed on the worker
    wfState,          \* "NotStarted" | "Running" | "Completed" | "Failed"
    pc,               \* index of the next statement of the routine
    waiting,          \* TRUE while blocked in Future.Get / Sleep
    hist,             \* engine history: the commands the instance issued
    pos,              \* how many history commands this execution has (re)issued
    ip,               \* local variable ip
    location,         \* local variable location
    timezone,         \* local variable timezone / zone
    version,          \* local variable version (NoVersion before the marker read)
    recordedIp,       \* local variable recordedIp (token returned by RecordLookup)
    result,           \* the value the routine returned
    err,              \* the error the routine returned
    cancelRequested,  \* the engine asked the instance to cancel (ctx.Done closed)
    wftError,         \* workflow-task failure: "none" | "nondeterministic" | "version"
    cache,            \* IPActivities.cache (in the worker process)
    restarts,         \* number of worker restarts so far
    reads,            \* the values GetVersion returned to the instance, over all its runs
    \* ---- Part II: one IPMonitorWorkflow instance and its client ----
    config,           \* MonitorConfig the instance was started with
    m_pc,             \* where the workflow coroutine is
    currentIP, checkInterval, isPaused, shouldStop,
    totalChecks, history, lastCheckTime, lastResult,
    checkTime,        \* local variable checkTime of the loop body
    chans,            \* the five signal channels: name -> buffered signals
    readyBranch,      \* the selector branch that became ready while blocked
    timer,            \* the timer of this loop iteration
    staleTimers,      \* timers of earlier iterations that are still pending
    checks,           \* engine side: one record per ExecuteActivity of the loop
    now,              \* workflow.Now(ctx), counted in firings of the loop timer
    sent,             \* the signals the client sent, in order
    applied,          \* the signals whose handler ran, in order (by send index)
    m_cancel,         \* the engine asked the monitor to cancel
    m_err,            \* what the monitor returned
    m_replays,        \* how often the monitor was re-executed from its history
    \* ---- Part II: one IPLookupWorkflow instance ----
    lk_pc,            \* where the lookup routine is
    lk_ip,            \* its argument ip
    status,           \* its local variable status
    lookupResult,     \* its local variable result
    lk_location,      \* its local variable location
    lk_value,         \* the string the lookup returned
    lk_err,           \* the error the lookup returned
    \* ---- Part II: one StatusCheckerWorkflow instance observing the lookup ----
    sc_pc,            \* where the checker routine is
    sc_status,        \* its local variable status
    sc_result,        \* its local variable result
    sc_resultErr,     \* what resultQuery.Get(&result) returned
    sc_summary,       \* the summary it returned
    sc_err,           \* the error it returned
    answer,           \* the answer the engine hands back to a query in this step
    \* ---- Part III: two instances running on one worker ----
    inst,             \* per instance: its routine, position, locals, history, outcome
    replies,          \* per instance: the capability replies it was given, in order
    \* ---- the IPActivities value of the worker, called concurrently ----
    calls,            \* per call of RecordLookup / CompensateLookup: where it is
    mu,               \* IPActivities.mu: the call that holds it, or 0
    cacheNil,         \* i.cache == nil
    \* ---- the task queue ip-address-go ----
    workerProgram,    \* which main of worker/main.go polls the queue
    tasks             \* per workflow type: the instance a starter started

orchVars == <<code, wfState, pc, waiting, hist, pos, ip, location, timezone,
              version, recordedIp, result, err, cancelRequested, wftError,
              cache, restarts, reads>>

monState == <<currentIP, checkInterval, isPaused, shouldStop, totalChecks,
              history, lastCheckTime, lastResult>>

monVars == <<config, m_pc, monState, checkTime, chans, readyBranch, timer,
             staleTimers, checks, now, sent, applied, m_cancel, m_err,
             m_replays>>

checkerVars == <<sc_pc, sc_status, sc_result, sc_resultErr, sc_summary, sc_err>>

lookupVars == <<lk_pc, lk_ip, status, lookupResult, lk_location, lk_value,
               lk_err, checkerVars>>

sigVars == <<monVars, lookupVars, answer>>

lockVars == <<calls, mu, cacheNil>>

dispatchVars == <<workerProgram, tasks>>

pairVars == <<inst, replies, lockVars, dispatchVars>>

vars == <<orchVars, sigVars, pairVars>>

-----------------------------------------------------------------------------
(* Bounds of the model *)

MaxRestarts == 2
MaxTime == 2
MaxMaxChecks == 2
MaxTotalChecks == 3
MaxCalls == 3

(* Program constants *)

DefaultVersion == -1
HistoryLimit == 50
ZeroTime == 0
NoVersion == DefaultVersion - 1

-----------------------------------------------------------------------------
(* The routines, statement by statement *)

Act(n, w) == [op |-> "activity", name |-> n, wrap |-> w, gated |-> FALSE,
              minSupported |-> 0, maxSupported |-> 0]
\* (mutant) the timezone statement without its version gate
IfVersion1_ungated(n, w) ==
    [op |-> "activity", name |-> n, wrap |-> w, gated |-> FALSE,
     minSupported |-> 0, maxSupported |-> 0]

IfVersion1(n, w) == [op |-> "activity", name |-> n, wrap |-> w, gated |-> TRUE,
                     minSupported |-> 0, maxSupported |-> 0]
SleepStmt == [op |-> "sleep", name |-> "Timer", wrap |-> "", gated |-> FALSE,
              minSupported |-> 0, maxSupported |-> 0]
GetVersionStmt(id, lo, hi) == [op |-> "getversion", name |-> id, wrap |-> "",
                               gated |-> FALSE, minSupported |-> lo,
                               maxSupported |-> hi]

\* src/workflows.go: GetIP, Sleep(45s), GetLocationInfo
GetAddressFromIP ==
    << Act("GetIP", "failed to get ip"),
       SleepStmt,
       Act("GetLocationInfo", "failed to get location") >>

\* (mutant) GetAddressFromIPClean with the gated timezone fetch moved before
\* the location fetch
GetAddressFromIPClean_reordered ==
    << Act("GetIP", "failed to get ip"),
       SleepStmt,
       GetVersionStmt("add-timezone-feature", DefaultVersion, 1),
       IfVersion1("GetTimezone", "failed to get timezone"),
       Act("GetLocationInfo", "failed to get location") >>

\* src/unnamed/part_001: GetIP, Sleep, GetVersion, GetLocationInfo, [GetTimezone]
GetAddressFromIPClean ==
    << Act("GetIP", "failed to get ip"),
       SleepStmt,
       GetVersionStmt("add-timezone-feature", DefaultVersion, 1),
       Act("GetLocationInfo", "failed to get location"),
       IfVersion1("GetTimezone", "failed to get timezone") >>

\* src/worker/main.go (workflows_versioned_SOLUTION):
\* GetIP, Sleep, GetVersion, [GetTimezone], GetLocationInfo
GetAddressFromIP_SOLUTION ==
    << Act("GetIP", "failed to get ip"),
       SleepStmt,
       GetVersionStmt("add-timezone-feature", DefaultVersion, 1),
       IfVersion1("GetTimezone", "failed to get timezone"),
       Act("GetLocationInfo", "failed to get location") >>

\* the lifecycle step of the walkthrough, months later: minSupported raised to
\* 1, "no if statement needed", the timezone is always fetched
GetAddressFromIP_PHASE5 ==
    << Act("GetIP", "failed to get ip"),
       SleepStmt,
       GetVersionStmt("add-timezone-feature", 1, 1),
       Act("GetTimezone", "failed to get timezone"),
       Act("GetLocationInfo", "failed to get location") >>

\* EXAMPLE 2 and 3 of the solution file: GetVersion(ctx, id, 1, 2) and
\* `if version >= 1 { fetch timezone }`, a test that holds for every version
\* GetVersion hands back with minSupported 1
GetAddressFromIP_EXAMPLE2 ==
    << Act("GetIP", "failed to get ip"),
       SleepStmt,
       GetVersionStmt("add-timezone-feature", 1, 2),
       Act("GetTimezone", "failed to get timezone"),
       Act("GetLocationInfo", "failed to get location") >>

\* the breaking change of the exercise: an unconditional timezone fetch
\* inserted after the Sleep of src/workflows.go
GetAddressFromIP_BREAKING ==
    << Act("GetIP", "failed to get ip"),
       SleepStmt,
       Act("GetTimezone", "failed to get timezone"),
       Act("GetLocationInfo", "failed to get location") >>

\* src/unnamed/part_001: frozen V1
GetAddressFromIPV1 ==
    << Act("GetIP", ""),
       Act("GetLocationInfo", "") >>

\* src/unnamed/part_001: V2 with timezone
GetAddressFromIPV2 ==
    << Act("GetIP", ""),
       Act("GetLocationInfo", ""),
       Act("GetTimezone", "") >>

\* src/unnamed/part_005: V2 with the record step
GetAddressFromIPV2_record ==
    << Act("GetIP", "failed to get ip"),
       Act("RecordLookup", "failed to record lookup"),
       SleepStmt,
       Act("GetLocationInfo", "failed to get location"),
       Act("GetTimezone", "failed to get timezone") >>

Routines == {"GetAddressFromIP", "GetAddressFromIPClean",
             "GetAddressFromIP_SOLUTION", "GetAddressFromIP_BREAKING",
             "GetAddressFromIPV1", "GetAddressFromIPV2",
             "GetAddressFromIPV2_record", "GetAddressFromIP_PHASE5",
             "GetAddressFromIP_EXAMPLE2"}

Program(c) ==
    CASE c = "GetAddressFromIP"          -> GetAddressFromIP
      [] c = "GetAddressFromIPClean"     -> GetAddressFromIPClean
      [] c = "GetAddressFromIP_SOLUTION" -> GetAddressFromIP_SOLUTION
      [] c = "GetAddressFromIP_BREAKING" -> GetAddressFromIP_BREAKING
      [] c = "GetAddressFromIPV1"        -> GetAddressFromIPV1
      [] c = "GetAddressFromIPV2"        -> GetAddressFromIPV2
      [] c = "GetAddressFromIPV2_record" -> GetAddressFromIPV2_record
      [] c = "GetAddressFromIP_PHASE5"   -> GetAddressFromIP_PHASE5
      [] c = "GetAddressFromIP_EXAMPLE2" -> GetAddressFromIP_EXAMPLE2

VersionGated == {"GetAddressFromIPClean", "GetAddressFromIP_SOLUTION"}

\* the editions of the version-gated routine that raise minSupported to 1
MinRaised == {"GetAddressFromIP_PHASE5", "GetAddressFromIP_EXAMPLE2"}

\* Code that a worker restart may deploy in place of c. The exercise edits
\* workflows.go (GetAddressFromIP) while instances are in flight, and later
\* raises minSupported in the solution; the other routines are only ever
\* restarted with the same code.
Deployable(c) ==
    IF c \in {"GetAddressFromIP", "GetAddressFromIP_BREAKING"}
    THEN {"GetAddressFromIP", "GetAddressFromIPClean",
          "GetAddressFromIP_SOLUTION", "GetAddressFromIP_BREAKING"}
         \cup MinRaised
    ELSE IF c \in {"GetAddressFromIP_SOLUTION"} \cup MinRaised
    THEN {"GetAddressFromIP_SOLUTION"} \cup MinRaised
    ELSE {c}

-----------------------------------------------------------------------------
(* Values *)

NoErr == [msg |-> "", cause |-> "nil"]

\* fmt.Errorf("<wrap>: %s", err), or the error itself where the routine
\* returns err unwrapped
WrapErr(w, cause) == [msg |-> w, cause |-> cause]

EmptyCache == [k \in {} |-> ""]

UnixTimes == {"1730880005", "1730880006"}

\* fmt.Sprintf("%d-%s", time.Now().Unix(), ip)
RecordId(t, addr) == t \o "-" \o addr

\* What ip-api.com may answer to the location request: the fields that
\* GetLocationInfo decodes.
LocationReplies ==
    {[status |-> "success", message |-> "", city |-> "X", regionName |-> "Y",
      country |-> "Z"],
     [status |-> "fail", message |-> "invalid query", city |-> "",
      regionName |-> "", country |-> ""]}

\* (mutant) the location string with city and region exchanged
LocationString_swapped(reply) ==
    "City: " \o reply.regionName \o ", Region: " \o reply.city
        \o ", Country: " \o reply.country

\* fmt.Sprintf("City: %s, Region: %s, Country: %s", city, regionName, country)
LocationString(reply) ==
    "City: " \o reply.city \o ", Region: " \o reply.regionName
        \o ", Country: " \o reply.country

\* GetLocationInfo on a decoded reply
GetLocationInfo(reply) ==
    IF reply.status = "fail"
    THEN [res |-> "fail", val |-> "API error: " \o reply.message]
    ELSE [res |-> "ok", val |-> LocationString(reply)]

\* What ip-api.com may answer to the request "?fields=timezone", as
\* GetTimeZone decodes it (a key that the reply does not carry decodes to the
\* empty string): the timezone; nothing, for an address it cannot place (the
\* field list leaves status and message out); a reply that carries status
\* "fail".
TimezoneReplies ==
    {[status |-> "", message |-> "", timezone |-> "UTC"],
     [status |-> "", message |-> "", timezone |-> ""],
     [status |-> "fail", message |-> "invalid query", timezone |-> ""]}

\* GetTimeZone on a decoded reply
GetTimeZone(reply) ==
    IF reply.status = "fail"
    THEN [res |-> "fail", val |-> "API error: " \o reply.message]
    ELSE [res |-> "ok", val |-> reply.timezone]

\* What the capability provider may answer to one invocation.
ActivityOutcomes(name, arg) ==
    CASE name = "GetIP" ->
            {[res |-> "ok", val |-> "203.0.113.5"],
             [res |-> "fail", val |-> "provider error"]}
      [] name = "GetLocationInfo" ->
            {GetLocationInfo(reply) : reply \in LocationReplies}
            \cup {[res |-> "fail", val |-> "provider error"]}
      [] name = "GetTimezone" ->
            {GetTimeZone(reply) : reply \in TimezoneReplies}
            \cup {[res |-> "fail", val |-> "provider error"]}
      [] name = "RecordLookup" ->
            {[res |-> "ok", val |-> RecordId(t, arg)] : t \in UnixTimes}
            \cup {[res |-> "fail", val |-> "provider error"]}

\* The zero value of the routine's result type.
EmptyResult(c) ==
    CASE c \in {"GetAddressFromIP", "GetAddressFromIP_SOLUTION",
                "GetAddressFromIP_BREAKING"} \cup MinRaised -> [result |-> ""]
      [] c \in {"GetAddressFromIPClean", "GetAddressFromIPV1",
                "GetAddressFromIPV2"} -> [Location |-> "", Timezone |-> ""]
      [] c = "GetAddressFromIPV2_record" ->
            [Result |-> "", Location |-> "", Zone |-> ""]

\* The value the routine returns on success.
MakeResult(c, addr, loc, tz, v) ==
    CASE c \in {"GetAddressFromIP", "GetAddressFromIP_BREAKING"} ->
            [result |-> loc]
      [] c \in {"GetAddressFromIP_SOLUTION"} \cup MinRaised ->
            [result |-> IF v = 1 /\ tz # ""
                        THEN loc \o ", Timezone: " \o tz
                        ELSE loc]
      [] c \in {"GetAddressFromIPClean", "GetAddressFromIPV1",
                "GetAddressFromIPV2"} -> [Location |-> loc, Timezone |-> tz]
      [] c = "GetAddressFromIPV2_record" ->
            [Result |-> addr, Location |-> loc, Zone |-> tz]

\* The result types as encoding/json sees them: for every field its name,
\* its key (the json tag, or the field name), whether it is exported, and
\* whether the tag says omitempty.
Field(f, k, exp, omit) == [field |-> f, key |-> k, exported |-> exp,
                           omitempty |-> omit]

\* type data struct { result string }
data == << Field("result", "result", FALSE, FALSE) >>

\* type WorkflowResult struct { Location `json:"location"`;
\*                              Timezone `json:"timezone,omitempty"` }
WorkflowResult ==
    << Field("Location", "location", TRUE, FALSE),
       Field("Timezone", "timezone", TRUE, TRUE) >>

\* type Data struct { Result, Location, Zone string }
Data ==
    << Field("Result", "Result", TRUE, FALSE),
       Field("Location", "Location", TRUE, FALSE),
       Field("Zone", "Zone", TRUE, FALSE) >>

Schema(c) ==
    CASE c \in {"GetAddressFromIP", "GetAddressFromIP_SOLUTION",
                "GetAddressFromIP_BREAKING"} \cup MinRaised -> data
      [] c \in {"GetAddressFromIPClean", "GetAddressFromIPV1",
                "GetAddressFromIPV2"} -> WorkflowResult
      [] c = "GetAddressFromIPV2_record" -> Data

\* strings.ToLower on the keys that occur
Lower(k) ==
    CASE k = "Result"   -> "result"
      [] k = "Location" -> "location"
      [] k = "Zone"     -> "zone"
      [] k = "Timezone" -> "timezone"
      [] OTHER          -> k

\* json.Marshal of a struct value: unexported fields are skipped, an
\* omitempty field is skipped when it is the empty string
Encode(schema, rec) ==
    LET kept == {i \in 1..Len(schema) :
                    /\ schema[i].exported
                    /\ ~(schema[i].omitempty /\ rec[schema[i].field] = "")}
        FieldOf(k) == CHOOSE i \in kept : schema[i].key = k
    IN  [k \in {schema[i].key : i \in kept} |-> rec[schema[FieldOf(k)].field]]

\* json.Unmarshal into a zero struct value: a key is matched to an exported
\* field ignoring case, a field without a key keeps its zero value, a key
\* without a field is ignored; none of these is a failure
Decode(schema, obj) ==
    LET Keys(i) == {k \in DOMAIN obj : Lower(k) = Lower(schema[i].key)}
        IndexOf(f) == CHOOSE i \in 1..Len(schema) : schema[i].field = f
    IN  [f \in {schema[i].field : i \in 1..Len(schema)} |->
            IF schema[IndexOf(f)].exported /\ Keys(IndexOf(f)) # {}
            THEN obj[CHOOSE k \in Keys(IndexOf(f)) : TRUE]
            ELSE ""]

-----------------------------------------------------------------------------
(* Engine helpers *)

Replaying == pos < Len(hist)

Cmd(name, arg) == [cmd |-> name, arg |-> arg, res |-> "pending", val |-> "",
                   by |-> code]

\* The argument the statement passes to the activity.
ArgOf(name) == IF name = "GetIP" THEN "" ELSE ip

\* (mutant) GetVersion that, on replaying a marker, hands back the maximum the
\* deployed code declares instead of the recorded value
GetVersionValue_latest(h, p, maxSupported) ==
    IF p < Len(h)
    THEN IF h[p + 1].cmd = "Marker" THEN maxSupported ELSE DefaultVersion
    ELSE maxSupported

\* (mutant) GetVersion that hands maxSupported to an instance replaying a
\* history without a marker
GetVersionValue_alwaysMax(h, p, maxSupported) ==
    IF p < Len(h) /\ h[p + 1].cmd = "Marker" THEN h[p + 1].val ELSE maxSupported

\* workflow.GetVersion: the recorded marker when replaying one, DefaultVersion
\* when replaying a history that has no marker at this point, maxSupported
\* (recorded as a new marker) when executing for the first time.
GetVersionValue(h, p, maxSupported) ==
    IF p < Len(h)
    THEN IF h[p + 1].cmd = "Marker" THEN h[p + 1].val ELSE DefaultVersion
    ELSE maxSupported

SetLast(h, r, v) == [h EXCEPT ![Len(h)].res = r, ![Len(h)].val = v]

-----------------------------------------------------------------------------
(* Part I: actions *)

locals == <<ip, location, timezone, version, recordedIp>>

InitOrch ==
    /\ code \in Routines \ {"GetAddressFromIP_BREAKING"}
    /\ wfState = "NotStarted"
    /\ pc = 1
    /\ waiting = FALSE
    /\ hist = << >>
    /\ pos = 0
    /\ ip = ""
    /\ location = ""
    /\ timezone = ""
    /\ version = NoVersion
    /\ recordedIp = ""
    /\ result = EmptyResult(code)
    /\ err = NoErr
    /\ cancelRequested = FALSE
    /\ wftError = "none"
    /\ cache = EmptyCache
    /\ restarts = 0
    /\ reads = << >>

\* (mutant) a start that also runs a failed instance again
StartWorkflow_again ==
    /\ wfState \in {"NotStarted", "Failed"}
    /\ wfState' = "Running"
    /\ UNCHANGED <<code, pc, waiting, hist, pos, locals, result, err,
                   cancelRequested, wftError, cache, restarts, reads>>

\* a starter program calls ExecuteWorkflow
StartWorkflow ==
    /\ wfState = "NotStarted"
    /\ wfState' = "Running"
    /\ UNCHANGED <<code, pc, waiting, hist, pos, locals, result, err,
                   cancelRequested, wftError, cache, restarts, reads>>

CanStep ==
    /\ wfState = "Running"
    /\ wftError = "none"
    /\ ~waiting
    /\ pc <= Len(Program(code))

\* (mutant) an error return that hands back what was fetched so far
FailWith_partial(e) ==
    /\ wfState' = "Failed"
    /\ err' = e
    /\ result' = MakeResult(code, ip, location, timezone, version)

\* the routine returns an error: the instance fails with the zero result
FailWith(e) ==
    /\ wfState' = "Failed"
    /\ err' = e
    /\ result' = EmptyResult(code)

\* `if version == 1 { ... } else { ... }`: the else branch
SkipGated ==
    /\ CanStep
    /\ Program(code)[pc].op = "activity"
    /\ Program(code)[pc].gated
    /\ version # 1
    /\ pc' = pc + 1
    /\ UNCHANGED <<code, wfState, waiting, hist, pos, locals, result, err,
                   cancelRequested, wftError, cache, restarts, reads>>

\* The context is cancelled at this statement: cancellation was requested and
\* the history holds no activity or timer past this point, so the statement
\* did not schedule one when it ran (the cancellation request is an event of
\* the history, and a re-execution meets it at the same place).
CancelledHere ==
    /\ cancelRequested
    /\ \A i \in (pos + 1)..Len(hist) : hist[i].cmd = "Marker"

\* workflow.ExecuteActivity(ctx, ...): schedules the activity, or matches the
\* command against the next one of the history when replaying
ExecuteActivity ==
    /\ CanStep
    /\ LET s == Program(code)[pc] IN
       /\ s.op = "activity"
       /\ s.gated => version = 1
       /\ IF CancelledHere
          THEN \* the context is already cancelled: nothing is scheduled
               \* and Get returns the cancellation error
               /\ FailWith(WrapErr(s.wrap, "canceled"))
               /\ UNCHANGED <<hist, pos, waiting, wftError>>
          ELSE IF Replaying
               THEN IF hist[pos + 1].cmd = s.name
                    THEN /\ pos' = pos + 1
                         /\ waiting' = TRUE
                         /\ UNCHANGED <<hist, wfState, err, result, wftError>>
                    ELSE /\ wftError' = "nondeterministic"
                         /\ UNCHANGED <<hist, pos, waiting, wfState, err, result>>
               ELSE /\ hist' = Append(hist, Cmd(s.name, ArgOf(s.name)))
                    /\ pos' = pos + 1
                    /\ waiting' = TRUE
                    /\ UNCHANGED <<wfState, err, result, wftError>>
    /\ UNCHANGED <<code, pc, locals, cancelRequested, cache, restarts, reads>>

\* (mutant) a Get that returns only when the activity succeeded
FutureGet_okOnly ==
    /\ wfState = "Running"
    /\ wftError = "none"
    /\ waiting
    /\ Program(code)[pc].op = "activity"
    /\ hist[pos].res = "ok"
    /\ LET s == Program(code)[pc]
           e == hist[pos]
       IN /\ pc' = pc + 1
          /\ waiting' = FALSE
          /\ ip' = IF s.name = "GetIP" THEN e.val ELSE ip
          /\ location' = IF s.name = "GetLocationInfo" THEN e.val ELSE location
          /\ timezone' = IF s.name = "GetTimezone" THEN e.val ELSE timezone
          /\ recordedIp' = IF s.name = "RecordLookup" THEN e.val ELSE recordedIp
    /\ UNCHANGED <<code, wfState, err, result, hist, pos, version,
                   cancelRequested, wftError, cache, restarts, reads>>

\* Future.Get(ctx, &x) returns: the value is stored, or the routine returns
\* the (wrapped) error
FutureGet ==
    /\ wfState = "Running"
    /\ wftError = "none"
    /\ waiting
    /\ Program(code)[pc].op = "activity"
    /\ hist[pos].res # "pending"
    /\ LET s == Program(code)[pc]
           e == hist[pos]
       IN IF e.res = "ok"
          THEN /\ pc' = pc + 1
               /\ waiting' = FALSE
               /\ ip' = IF s.name = "GetIP" THEN e.val ELSE ip
               /\ location' = IF s.name = "GetLocationInfo" THEN e.val ELSE location
               /\ timezone' = IF s.name = "GetTimezone" THEN e.val ELSE timezone
               /\ recordedIp' = IF s.name = "RecordLookup" THEN e.val ELSE recordedIp
               /\ UNCHANGED <<wfState, err, result>>
          ELSE /\ FailWith(WrapErr(s.wrap, IF e.res = "canceled"
                                            THEN "canceled" ELSE e.val))
               /\ waiting' = FALSE
               /\ UNCHANGED <<pc, ip, location, timezone, recordedIp>>
    /\ UNCHANGED <<code, hist, pos, version, cancelRequested, wftError,
                   cache, restarts, reads>>

\* workflow.Sleep(ctx, d): starts the timer (or matches it when replaying)
Sleep ==
    /\ CanStep
    /\ Program(code)[pc].op = "sleep"
    /\ IF CancelledHere
       THEN \* Sleep returns the cancellation error, which the routine drops
            /\ pc' = pc + 1
            /\ UNCHANGED <<hist, pos, waiting, wftError>>
       ELSE IF Replaying
            THEN IF hist[pos + 1].cmd = "Timer"
                 THEN /\ pos' = pos + 1
                      /\ waiting' = TRUE
                      /\ UNCHANGED <<hist, pc, wftError>>
                 ELSE /\ wftError' = "nondeterministic"
                      /\ UNCHANGED <<hist, pos, waiting, pc>>
            ELSE /\ hist' = Append(hist, Cmd("Timer", ""))
                 /\ pos' = pos + 1
                 /\ waiting' = TRUE
                 /\ UNCHANGED <<pc, wftError>>
    /\ UNCHANGED <<code, wfState, locals, result, err, cancelRequested,
                   cache, restarts, reads>>

\* workflow.Sleep returns (timer fired or cancelled); its error is not looked at
SleepReturns ==
    /\ wfState = "Running"
    /\ wftError = "none"
    /\ waiting
    /\ Program(code)[pc].op = "sleep"
    /\ hist[pos].res # "pending"
    /\ pc' = pc + 1
    /\ waiting' = FALSE
    /\ UNCHANGED <<code, wfState, hist, pos, locals, result, err,
                   cancelRequested, wftError, cache, restarts, reads>>

\* (mutant) GetVersion without validateVersion: a value below minSupported is
\* handed to the routine
GetVersion_noValidate ==
    /\ CanStep
    /\ LET s == Program(code)[pc]
           v == GetVersionValue(hist, pos, s.maxSupported)
       IN /\ s.op = "getversion"
          /\ version' = v
          /\ reads' = Append(reads, v)
          /\ pc' = pc + 1
          /\ wftError' = wftError
          /\ IF Replaying
             THEN /\ pos' = IF hist[pos + 1].cmd = "Marker"
                            THEN pos + 1 ELSE pos
                  /\ hist' = hist
             ELSE /\ hist' = Append(hist,
                         [Cmd("Marker", s.name) EXCEPT
                             !.res = "ok", !.val = v])
                  /\ pos' = pos + 1
    /\ UNCHANGED <<code, wfState, waiting, ip, location, timezone, recordedIp,
                   result, err, cancelRequested, cache, restarts>>

\* version := workflow.GetVersion(ctx, changeID, minSupported, maxSupported)
GetVersion ==
    /\ CanStep
    /\ LET s == Program(code)[pc]
           v == GetVersionValue(hist, pos, s.maxSupported)
       IN /\ s.op = "getversion"
          /\ IF v < s.minSupported \/ v > s.maxSupported
             THEN \* validateVersion panics: the workflow task fails
                  /\ wftError' = "version"
                  /\ UNCHANGED <<hist, pos, pc, version, reads>>
             ELSE /\ version' = v
                  /\ reads' = Append(reads, v)
                  /\ pc' = pc + 1
                  /\ wftError' = wftError
                  /\ IF Replaying
                     THEN /\ pos' = IF hist[pos + 1].cmd = "Marker"
                                    THEN pos + 1 ELSE pos
                          /\ hist' = hist
                     ELSE /\ hist' = Append(hist,
                                 [Cmd("Marker", s.name) EXCEPT
                                     !.res = "ok", !.val = v])
                          /\ pos' = pos + 1
    /\ UNCHANGED <<code, wfState, waiting, ip, location, timezone, recordedIp,
                   result, err, cancelRequested, cache, restarts>>

\* `return result, nil`
WorkflowReturn ==
    /\ wfState = "Running"
    /\ wftError = "none"
    /\ ~waiting
    /\ pc = Len(Program(code)) + 1
    /\ wfState' = "Completed"
    /\ result' = MakeResult(code, ip, location, timezone, version)
    /\ err' = NoErr
    /\ UNCHANGED <<code, pc, waiting, hist, pos, locals, cancelRequested,
                   wftError, cache, restarts, reads>>

\* the activity worker runs the pending activity and reports its outcome
ActivityCompletes ==
    /\ wfState = "Running"
    /\ hist # << >>
    /\ LET e == hist[Len(hist)] IN
       /\ e.cmd \notin {"Timer", "Marker"}
       /\ e.res = "pending"
       /\ \E o \in ActivityOutcomes(e.cmd, e.arg) :
            /\ hist' = SetLast(hist, o.res, o.val)
            /\ cache' = IF e.cmd = "RecordLookup" /\ o.res = "ok"
                        THEN [k \in DOMAIN cache \cup {o.val} |->
                                 IF k = o.val THEN e.arg ELSE cache[k]]
                        ELSE cache
    /\ UNCHANGED <<code, wfState, pc, waiting, pos, locals, result, err,
                   cancelRequested, wftError, restarts, reads>>

\* an attempt of the pending activity runs on the worker, but its outcome does
\* not reach the engine (the worker stops, or the report times out): the
\* activity stays pending and the retry policy has it delivered again
ActivityAttemptLost ==
    /\ wfState = "Running"
    /\ hist # << >>
    /\ LET e == hist[Len(hist)] IN
       /\ e.cmd \notin {"Timer", "Marker"}
       /\ e.res = "pending"
       /\ \E o \in ActivityOutcomes(e.cmd, e.arg) :
            cache' = IF e.cmd = "RecordLookup" /\ o.res = "ok"
                     THEN [k \in DOMAIN cache \cup {o.val} |->
                              IF k = o.val THEN e.arg ELSE cache[k]]
                     ELSE cache
    /\ UNCHANGED <<code, wfState, pc, waiting, hist, pos, locals, result, err,
                   cancelRequested, wftError, restarts, reads>>

\* the engine fires the pending timer
TimerFires ==
    /\ wfState = "Running"
    /\ hist # << >>
    /\ hist[Len(hist)].cmd = "Timer"
    /\ hist[Len(hist)].res = "pending"
    /\ hist' = SetLast(hist, "ok", "")
    /\ UNCHANGED <<code, wfState, pc, waiting, pos, locals, result, err,
                   cancelRequested, wftError, cache, restarts, reads>>

\* the engine requests cancellation: the context is cancelled, and a pending
\* timer or activity future resolves with the cancellation error
RequestCancel ==
    /\ wfState = "Running"
    /\ ~cancelRequested
    /\ cancelRequested' = TRUE
    /\ hist' = IF hist # << >> /\ hist[Len(hist)].res = "pending"
               THEN SetLast(hist, "canceled", "")
               ELSE hist
    /\ UNCHANGED <<code, wfState, pc, waiting, pos, locals, result, err,
                   wftError, cache, restarts, reads>>

\* the worker process is stopped and started again, possibly with edited code:
\* the routine is re-executed from its first statement against the history,
\* and the in-process cache of IPActivities is gone
RestartWorker(c) ==
    /\ wfState = "Running"
    /\ restarts < MaxRestarts
    /\ c \in Deployable(code)
    /\ code' = c
    /\ pc' = 1
    /\ waiting' = FALSE
    /\ pos' = 0
    /\ ip' = ""
    /\ location' = ""
    /\ timezone' = ""
    /\ version' = NoVersion
    /\ recordedIp' = ""
    /\ wftError' = "none"
    /\ cache' = EmptyCache
    /\ restarts' = restarts + 1
    /\ UNCHANGED <<wfState, hist, result, err, cancelRequested, reads>>

-----------------------------------------------------------------------------
(* Part II: IPMonitorWorkflow *)

SignalNames == {"pause", "resume", "change-ip", "change-interval", "stop"}

\* the order in which the loop adds its receive cases to the selector
SelectorOrder == <<"pause", "resume", "change-ip", "change-interval", "stop">>

\* the signals the monitoring client sends, in the order it sends them
Script ==
    << [name |-> "pause",           payload |-> ""],
       [name |-> "change-ip",       payload |-> "1.1.1.1"],
       [name |-> "resume",          payload |-> ""],
       [name |-> "change-interval", payload |-> 3],
       [name |-> "stop",            payload |-> ""] >>

NoAnswer == [query |-> "none", value |-> ""]

\* the GetLocationInfo future of the current iteration
CurrentCheck == checks[Len(checks)]

\* Selector.Select scans its cases in the order they were added and takes
\* the first one that is ready; the timer was added last
FirstReady ==
    IF \E i \in 1..Len(SelectorOrder) : chans[SelectorOrder[i]] # << >>
    THEN SelectorOrder[CHOOSE i \in 1..Len(SelectorOrder) :
            /\ chans[SelectorOrder[i]] # << >>
            /\ \A j \in 1..(i - 1) : chans[SelectorOrder[j]] = << >>]
    ELSE IF timer \in {"fired", "canceled"} THEN "timer" ELSE "none"

\* the branch selector.Select(ctx) runs now
Selected(name) ==
    \/ m_pc = "SelectEntry" /\ FirstReady = name
    \/ m_pc = "SelectBlocked" /\ readyBranch = name

\* (mutant) a truncation that keeps the oldest entries
Bounded_oldest(h) ==
    IF Len(h) > HistoryLimit
    THEN SubSeq(h, 1, HistoryLimit)
    ELSE h

\* `if len(history) > 50 { history = history[len(history)-50:] }`
Bounded(h) ==
    IF Len(h) > HistoryLimit
    THEN SubSeq(h, Len(h) - HistoryLimit + 1, Len(h))
    ELSE h

\* the "status" query handler
StatusQuery ==
    [State |-> IF isPaused THEN "paused"
               ELSE IF shouldStop THEN "stopped" ELSE "running",
     CurrentIP |-> currentIP,
     CheckInterval |-> checkInterval,
     TotalChecks |-> totalChecks,
     LastCheckTime |-> lastCheckTime,
     LastResult |-> lastResult,
     History |-> history]

\* the "history" query handler
HistoryQuery == history

\* the "stats" query handler
StatsQuery ==
    [total_checks |-> totalChecks,
     current_ip |-> currentIP,
     is_paused |-> isPaused,
     check_interval |-> ToString(checkInterval) \o "s",
     last_check_time |-> ToString(lastCheckTime)]

\* the engine answers a query between workflow tasks: while the coroutine is
\* blocked with nothing to run, or after the routine returned
MonitorQueryable ==
    \/ m_pc = "SelectBlocked" /\ readyBranch = "none"
    \/ m_pc = "ActivityWait" /\ CurrentCheck.res = "pending"
    \/ m_pc = "Done"

InitMon ==
    /\ config \in {[InitialIP |-> "8.8.8.8", CheckInterval |-> 5, MaxChecks |-> m] :
                      m \in 0..MaxMaxChecks}
    /\ m_pc = "NotStarted"
    /\ currentIP = ""
    /\ checkInterval = 0
    /\ isPaused = FALSE
    /\ shouldStop = FALSE
    /\ totalChecks = 0
    /\ history = << >>
    /\ lastCheckTime = ZeroTime
    /\ lastResult = ""
    /\ checkTime = ZeroTime
    /\ chans = [n \in SignalNames |-> << >>]
    /\ readyBranch = "none"
    /\ timer = "none"
    /\ staleTimers = 0
    /\ checks = << >>
    /\ now = 1
    /\ sent = << >>
    /\ applied = << >>
    /\ m_cancel = FALSE
    /\ m_err = "running"
    /\ m_replays = 0
    /\ answer = NoAnswer

\* the monitor demo calls ExecuteWorkflow; the routine initialises its state
\* and registers its channels and query handlers
MonitorStart ==
    /\ m_pc = "NotStarted"
    /\ lk_pc = "NotStarted"
    /\ m_pc' = "LoopTop"
    /\ currentIP' = config.InitialIP
    /\ checkInterval' = config.CheckInterval
    /\ isPaused' = FALSE
    /\ shouldStop' = FALSE
    /\ totalChecks' = 0
    /\ history' = << >>
    /\ lastCheckTime' = ZeroTime
    /\ lastResult' = ""
    /\ UNCHANGED <<config, checkTime, chans, readyBranch, timer, staleTimers,
                   checks, now, sent, applied, m_cancel, m_err, lookupVars, m_replays>>

\* (mutant) a limit test that lets one check too many through
LoopTop_offByOne ==
    /\ m_pc = "LoopTop"
    /\ IF shouldStop \/ (config.MaxChecks > 0 /\ totalChecks > config.MaxChecks)
       THEN /\ m_pc' = "Done"
            /\ m_err' = "nil"
            /\ UNCHANGED timer
       ELSE /\ m_pc' = "SelectEntry"
            /\ timer' = IF m_cancel THEN "canceled" ELSE "pending"
            /\ UNCHANGED m_err
    /\ UNCHANGED <<config, monState, checkTime, chans, readyBranch, staleTimers,
                   checks, now, sent, applied, m_cancel, lookupVars, m_replays>>

\* top of the loop: the two break tests, then the selector and its timer
LoopTop ==
    /\ m_pc = "LoopTop"
    /\ IF shouldStop \/ (config.MaxChecks > 0 /\ totalChecks >= config.MaxChecks)
       THEN /\ m_pc' = "Done"
            /\ m_err' = "nil"
            /\ UNCHANGED timer
       ELSE /\ m_pc' = "SelectEntry"
            /\ timer' = IF m_cancel THEN "canceled" ELSE "pending"
            /\ UNCHANGED m_err
    /\ UNCHANGED <<config, monState, checkTime, chans, readyBranch, staleTimers,
                   checks, now, sent, applied, m_cancel, lookupVars, m_replays>>

\* selector.Select(ctx) finds no case ready and blocks
SelectBlocks ==
    /\ m_pc = "SelectEntry"
    /\ FirstReady = "none"
    /\ m_pc' = "SelectBlocked"
    /\ UNCHANGED <<config, monState, checkTime, chans, readyBranch, timer,
                   staleTimers, checks, now, sent, applied, m_cancel, m_err,
                   lookupVars, m_replays>>

\* common part of the five receive callbacks: c.Receive(ctx, &sig) takes the
\* head of the channel; Select returns; the timer of this iteration is left
\* behind if it has not fired
Received(name) ==
    /\ Selected(name)
    /\ chans' = [chans EXCEPT ![name] = Tail(@)]
    /\ applied' = Append(applied, Head(chans[name]).id)
    /\ readyBranch' = "none"
    /\ staleTimers' = IF timer = "pending" THEN staleTimers + 1 ELSE staleTimers
    /\ timer' = "none"
    /\ m_pc' = "AfterSelect"
    /\ UNCHANGED <<config, totalChecks, history, lastCheckTime, lastResult,
                   checkTime, checks, now, sent, m_cancel, m_err, lookupVars, m_replays>>

HandlePause ==
    /\ Received("pause")
    /\ isPaused' = TRUE
    /\ UNCHANGED <<currentIP, checkInterval, shouldStop>>

HandleResume ==
    /\ Received("resume")
    /\ isPaused' = FALSE
    /\ UNCHANGED <<currentIP, checkInterval, shouldStop>>

HandleChangeIP ==
    /\ Received("change-ip")
    /\ currentIP' = Head(chans["change-ip"]).payload
    /\ UNCHANGED <<isPaused, checkInterval, shouldStop>>

HandleChangeInterval ==
    /\ Received("change-interval")
    /\ checkInterval' = Head(chans["change-interval"]).payload
    /\ UNCHANGED <<isPaused, currentIP, shouldStop>>

\* (mutant) a stop callback that receives the signal and forgets it
HandleStop_ignored ==
    /\ Received("stop")
    /\ UNCHANGED <<isPaused, currentIP, checkInterval, shouldStop>>

HandleStop ==
    /\ Received("stop")
    /\ shouldStop' = TRUE
    /\ UNCHANGED <<isPaused, currentIP, checkInterval>>

\* the timer case: "Timer fired, do nothing (will proceed to check)"
HandleTimer ==
    /\ Selected("timer")
    /\ readyBranch' = "none"
    /\ timer' = "none"
    /\ m_pc' = "AfterSelect"
    /\ UNCHANGED <<config, monState, checkTime, chans, staleTimers, checks,
                   now, sent, applied, m_cancel, m_err, lookupVars, m_replays>>

\* `if isPaused { continue }`
SkipCheck ==
    /\ m_pc = "AfterSelect"
    /\ isPaused
    /\ m_pc' = "LoopTop"
    /\ UNCHANGED <<config, monState, checkTime, chans, readyBranch, timer,
                   staleTimers, checks, now, sent, applied, m_cancel, m_err,
                   lookupVars, m_replays>>

\* (mutant) a loop body without the `if isPaused { continue }` test
PerformCheck_whilePaused ==
    /\ m_pc = "AfterSelect"
    /\ Len(checks) < MaxTotalChecks
    /\ m_pc' = "ActivityWait"
    /\ checkTime' = now
    /\ checks' = Append(checks,
          [ip |-> currentIP, time |-> now, seen |-> Len(applied),
           scheduled |-> ~m_cancel,
           res |-> IF m_cancel THEN "canceled" ELSE "pending",
           val |-> IF m_cancel THEN "canceled" ELSE ""])
    /\ UNCHANGED <<config, monState, chans, readyBranch, timer, staleTimers,
                   now, sent, applied, m_cancel, m_err, lookupVars, m_replays>>

\* checkTime := workflow.Now(ctx); ExecuteActivity(GetLocationInfo, currentIP)
\* (on a cancelled context nothing is scheduled and Get returns the error)
PerformCheck ==
    /\ m_pc = "AfterSelect"
    /\ ~isPaused
    /\ Len(checks) < MaxTotalChecks
    /\ m_pc' = "ActivityWait"
    /\ checkTime' = now
    /\ checks' = Append(checks,
          [ip |-> currentIP, time |-> now, seen |-> Len(applied),
           scheduled |-> ~m_cancel,
           res |-> IF m_cancel THEN "canceled" ELSE "pending",
           val |-> IF m_cancel THEN "canceled" ELSE ""])
    /\ UNCHANGED <<config, monState, chans, readyBranch, timer, staleTimers,
                   now, sent, applied, m_cancel, m_err, lookupVars, m_replays>>

\* (mutant) a check that is recorded but not counted
CheckReturns_noCount ==
    /\ m_pc = "ActivityWait"
    /\ CurrentCheck.res # "pending"
    /\ m_pc' = "LoopTop"
    /\ history' = Bounded(Append(history,
          [Timestamp |-> checkTime, IP |-> currentIP,
           Location |-> IF CurrentCheck.res = "ok" THEN CurrentCheck.val ELSE "",
           Error |-> IF CurrentCheck.res = "ok" THEN "" ELSE CurrentCheck.val]))
    /\ UNCHANGED <<config, currentIP, checkInterval, isPaused, shouldStop,
                   totalChecks, lastCheckTime, lastResult,
                   checkTime, chans, readyBranch, timer, staleTimers, checks,
                   now, sent, applied, m_cancel, m_err, lookupVars, m_replays>>

\* (mutant) a loop body that returns the error of a failed check
CheckReturns_fatal ==
    /\ m_pc = "ActivityWait"
    /\ CurrentCheck.res # "pending"
    /\ LET ok == CurrentCheck.res = "ok"
           entry == [Timestamp |-> checkTime,
                     IP |-> currentIP,
                     Location |-> IF ok THEN CurrentCheck.val ELSE "",
                     Error |-> IF ok THEN "" ELSE CurrentCheck.val]
       IN /\ lastResult' = IF ok THEN CurrentCheck.val
                           ELSE "ERROR: " \o CurrentCheck.val
          /\ history' = Bounded(Append(history, entry))
          /\ m_pc' = IF ok THEN "LoopTop" ELSE "Done"
          /\ m_err' = IF ok THEN m_err ELSE CurrentCheck.val
    /\ totalChecks' = totalChecks + 1
    /\ lastCheckTime' = checkTime
    /\ UNCHANGED <<config, currentIP, checkInterval, isPaused, shouldStop,
                   checkTime, chans, readyBranch, timer, staleTimers, checks,
                   now, sent, applied, m_cancel, lookupVars, m_replays>>

\* Get(ctx, &location) returns; the entry is built and the state updated
CheckReturns ==
    /\ m_pc = "ActivityWait"
    /\ CurrentCheck.res # "pending"
    /\ LET ok == CurrentCheck.res = "ok"
           entry == [Timestamp |-> checkTime,
                     IP |-> currentIP,
                     Location |-> IF ok THEN CurrentCheck.val ELSE "",
                     Error |-> IF ok THEN "" ELSE CurrentCheck.val]
       IN /\ lastResult' = IF ok THEN CurrentCheck.val
                           ELSE "ERROR: " \o CurrentCheck.val
          /\ history' = Bounded(Append(history, entry))
    /\ totalChecks' = totalChecks + 1
    /\ lastCheckTime' = checkTime
    /\ m_pc' = "LoopTop"
    /\ UNCHANGED <<config, currentIP, checkInterval, isPaused, shouldStop,
                   checkTime, chans, readyBranch, timer, staleTimers, checks,
                   now, sent, applied, m_cancel, m_err, lookupVars, m_replays>>

\* the activity worker runs GetLocationInfo(ip) and reports
CheckCompletes ==
    /\ m_pc = "ActivityWait"
    /\ CurrentCheck.res = "pending"
    /\ \/ checks' = [checks EXCEPT ![Len(checks)].res = "ok",
                                   ![Len(checks)].val =
                                       "Location of " \o CurrentCheck.ip]
       \/ checks' = [checks EXCEPT ![Len(checks)].res = "fail",
                                   ![Len(checks)].val = "provider error"]
    /\ UNCHANGED <<config, m_pc, monState, checkTime, chans, readyBranch, timer,
                   staleTimers, now, sent, applied, m_cancel, m_err, lookupVars, m_replays>>

\* the client calls SignalWorkflow; the engine puts the signal into the
\* channel of its name, and a selector blocked with no ready branch takes it
SendSignal(name, payload) ==
    /\ m_pc \notin {"NotStarted", "Done"}
    /\ Len(sent) < Len(Script)
    /\ Script[Len(sent) + 1] = [name |-> name, payload |-> payload]
    /\ sent' = Append(sent, [name |-> name, payload |-> payload])
    /\ chans' = [chans EXCEPT ![name] =
                    Append(@, [id |-> Len(sent) + 1, payload |-> payload])]
    /\ readyBranch' = IF m_pc = "SelectBlocked" /\ readyBranch = "none"
                      THEN name ELSE readyBranch
    /\ UNCHANGED <<config, m_pc, monState, checkTime, timer, staleTimers,
                   checks, now, applied, m_cancel, m_err, lookupVars, m_replays>>

\* the signals an operator may send with `temporal workflow signal`
CliSignals ==
    {[name |-> "pause",     payload |-> ""],
     [name |-> "resume",    payload |-> ""],
     [name |-> "stop",      payload |-> ""]}

\* an operator sends one signal from the command line, each name at most
\* once and in any order
SendCli(name, payload) ==
    /\ m_pc \notin {"NotStarted", "Done"}
    /\ \A i \in 1..Len(sent) : sent[i].name # name
    /\ sent' = Append(sent, [name |-> name, payload |-> payload])
    /\ chans' = [chans EXCEPT ![name] =
                    Append(@, [id |-> Len(sent) + 1, payload |-> payload])]
    /\ readyBranch' = IF m_pc = "SelectBlocked" /\ readyBranch = "none"
                      THEN name ELSE readyBranch
    /\ UNCHANGED <<config, m_pc, monState, checkTime, timer, staleTimers,
                   checks, now, applied, m_cancel, m_err, lookupVars, m_replays>>

\* the timer of this iteration fires
MonitorTimerFires ==
    /\ timer = "pending"
    /\ now < MaxTime
    /\ timer' = "fired"
    /\ now' = now + 1
    /\ readyBranch' = IF m_pc = "SelectBlocked" /\ readyBranch = "none"
                      THEN "timer" ELSE readyBranch
    /\ UNCHANGED <<config, m_pc, monState, checkTime, chans, staleTimers,
                   checks, sent, applied, m_cancel, m_err, lookupVars, m_replays>>

\* a timer left behind by an earlier iteration fires; no selector waits on it
StaleTimerFires ==
    /\ staleTimers > 0
    /\ staleTimers' = staleTimers - 1
    /\ UNCHANGED <<config, m_pc, monState, checkTime, chans, readyBranch, timer,
                   checks, now, sent, applied, m_cancel, m_err, lookupVars, m_replays>>

\* the engine requests cancellation of the monitor: its context is cancelled
\* and every pending timer and activity future resolves with the
\* cancellation error
MonitorCancel ==
    /\ m_pc \notin {"NotStarted", "Done"}
    /\ ~m_cancel
    /\ m_cancel' = TRUE
    /\ timer' = IF timer = "pending" THEN "canceled" ELSE timer
    /\ readyBranch' = IF m_pc = "SelectBlocked" /\ readyBranch = "none"
                         /\ timer = "pending"
                      THEN "timer" ELSE readyBranch
    /\ checks' = IF checks # << >> /\ CurrentCheck.res = "pending"
                 THEN [checks EXCEPT ![Len(checks)].res = "canceled",
                                     ![Len(checks)].val = "canceled"]
                 ELSE checks
    /\ staleTimers' = 0
    /\ UNCHANGED <<config, m_pc, monState, checkTime, chans, now, sent,
                   applied, m_err, lookupVars, m_replays>>

\* The recorded event history of the monitor, as the routine sees it on a
\* re-execution: the signals in the order their receive callbacks ran (sent,
\* applied), and the checks with the workflow.Now value and the activity
\* result of each (checks). Check k ran after the first checks[k].seen signals.

\* the checks whose result the routine has taken
ReturnedChecks ==
    IF m_pc = "ActivityWait" THEN Len(checks) - 1 ELSE Len(checks)

\* the state after the variable declarations at the top of the routine
StartState ==
    [currentIP |-> config.InitialIP, checkInterval |-> config.CheckInterval,
     isPaused |-> FALSE, shouldStop |-> FALSE, totalChecks |-> 0,
     history |-> << >>, lastCheckTime |-> ZeroTime, lastResult |-> ""]

\* (mutant) a pause callback that keeps its flag outside the workflow state,
\* where a re-execution does not find it
OnSignal_forgetful(st, sig) ==
    CASE sig.name = "pause"           -> st
      [] sig.name = "resume"          -> [st EXCEPT !.isPaused = FALSE]
      [] sig.name = "change-ip"       -> [st EXCEPT !.currentIP = sig.payload]
      [] sig.name = "change-interval" -> [st EXCEPT !.checkInterval = sig.payload]
      [] sig.name = "stop"            -> [st EXCEPT !.shouldStop = TRUE]

\* the receive callback of signal sig, run on state st
OnSignal(st, sig) ==
    CASE sig.name = "pause"           -> [st EXCEPT !.isPaused = TRUE]
      [] sig.name = "resume"          -> [st EXCEPT !.isPaused = FALSE]
      [] sig.name = "change-ip"       -> [st EXCEPT !.currentIP = sig.payload]
      [] sig.name = "change-interval" -> [st EXCEPT !.checkInterval = sig.payload]
      [] sig.name = "stop"            -> [st EXCEPT !.shouldStop = TRUE]

\* the loop body from checkTime := workflow.Now(ctx) on, run on state st with
\* the recorded time and activity result of check c
OnCheck(st, c) ==
    LET ok == c.res = "ok"
        entry == [Timestamp |-> c.time,
                  IP |-> st.currentIP,
                  Location |-> IF ok THEN c.val ELSE "",
                  Error |-> IF ok THEN "" ELSE c.val]
    IN  [st EXCEPT !.history = Bounded(Append(@, entry)),
                   !.totalChecks = @ + 1,
                   !.lastCheckTime = c.time,
                   !.lastResult = IF ok THEN c.val ELSE "ERROR: " \o c.val]

\* the routine re-executed from the start against the first a applied
\* signals and the first c returned checks of the recorded history
RECURSIVE Replay(_, _)
Replay(a, c) ==
    IF c > 0 /\ checks[c].seen >= a
    THEN OnCheck(Replay(a, c - 1), checks[c])
    ELSE IF a > 0
    THEN OnSignal(Replay(a - 1, c), sent[applied[a]])
    ELSE StartState

\* the worker is restarted while the monitor waits (in Select, or for the
\* activity): its coroutine is gone and the routine is re-executed from the
\* start against the recorded history, up to the same wait
MonitorRestart ==
    /\ m_pc \in {"SelectBlocked", "ActivityWait"}
    /\ MonitorQueryable
    /\ m_replays < MaxRestarts
    /\ m_replays' = m_replays + 1
    /\ LET st == Replay(Len(applied), ReturnedChecks) IN
       /\ currentIP' = st.currentIP
       /\ checkInterval' = st.checkInterval
       /\ isPaused' = st.isPaused
       /\ shouldStop' = st.shouldStop
       /\ totalChecks' = st.totalChecks
       /\ history' = st.history
       /\ lastCheckTime' = st.lastCheckTime
       /\ lastResult' = st.lastResult
    /\ checkTime' = IF m_pc = "ActivityWait" THEN CurrentCheck.time ELSE checkTime
    /\ UNCHANGED <<config, m_pc, chans, readyBranch, timer, staleTimers,
                   checks, now, sent, applied, m_cancel, m_err, lookupVars>>

nonAnswer == <<config, m_pc, monState, checkTime, chans, readyBranch, timer,
               staleTimers, checks, now, sent, applied, m_cancel, m_err,
               lookupVars, m_replays>>

\* QueryWorkflow(ctx, id, "", "status")
QueryStatus ==
    /\ MonitorQueryable
    /\ answer' = [query |-> "status", value |-> StatusQuery]
    /\ UNCHANGED nonAnswer

\* QueryWorkflow(ctx, id, "", "history")
QueryHistory ==
    /\ MonitorQueryable
    /\ answer' = [query |-> "history", value |-> HistoryQuery]
    /\ UNCHANGED nonAnswer

\* (mutant) a stats handler that counts the queries it answers as checks
QueryStats_counting ==
    /\ MonitorQueryable
    /\ answer' = [query |-> "stats", value |-> StatsQuery]
    /\ totalChecks' = totalChecks + 1
    /\ UNCHANGED <<config, m_pc, currentIP, checkInterval, isPaused, shouldStop,
                   history, lastCheckTime, lastResult, checkTime, chans,
                   readyBranch, timer, staleTimers, checks, now, sent, applied,
                   m_cancel, m_err, lookupVars, m_replays>>

\* QueryWorkflow(ctx, id, "", "stats")
QueryStats ==
    /\ MonitorQueryable
    /\ answer' = [query |-> "stats", value |-> StatsQuery]
    /\ UNCHANGED nonAnswer

-----------------------------------------------------------------------------
(* Part II: IPLookupWorkflow *)

InitLookup ==
    /\ lk_pc = "NotStarted"
    /\ lk_ip = ""
    /\ status = ""
    /\ lookupResult = ""
    /\ lk_location = ""
    /\ lk_value = ""
    /\ lk_err = "running"
    /\ sc_pc = "NotStarted"
    /\ sc_status = ""
    /\ sc_result = ""
    /\ sc_resultErr = "nil"
    /\ sc_summary = ""
    /\ sc_err = "running"

\* the routine starts: status "starting", then "fetching location", then it
\* sleeps ten seconds
LookupStart(addr) ==
    /\ lk_pc = "NotStarted"
    /\ m_pc = "NotStarted"
    /\ lk_ip' = addr
    /\ status' = "fetching location"
    /\ lookupResult' = ""
    /\ lk_pc' = "Sleep10"
    /\ UNCHANGED <<lk_location, lk_value, lk_err, checkerVars, monVars>>

\* the first sleep returns and GetLocationInfo(ip) is scheduled
LookupSleepReturns ==
    /\ lk_pc = "Sleep10"
    /\ lk_pc' = "ActivityWait"
    /\ UNCHANGED <<lk_ip, status, lookupResult, lk_location, lk_value, lk_err,
                   checkerVars, monVars>>

\* (mutant) a lookup that publishes what it has in result when it fails
LookupActivityReturns_resultOnFail ==
    /\ lk_pc = "ActivityWait"
    /\ \/ /\ lk_location' = "Location of " \o lk_ip
          /\ status' = "complete"
          /\ lookupResult' = lk_location'
          /\ lk_pc' = "Sleep20"
          /\ UNCHANGED <<lk_value, lk_err>>
       \/ /\ status' = "failed"
          /\ lk_pc' = "Done"
          /\ lk_value' = ""
          /\ lk_err' = "provider error"
          /\ lookupResult' = "ERROR: provider error"
          /\ UNCHANGED lk_location
    /\ UNCHANGED <<lk_ip, checkerVars, monVars>>

\* Get(ctx, &location) returns
LookupActivityReturns ==
    /\ lk_pc = "ActivityWait"
    /\ \/ /\ lk_location' = "Location of " \o lk_ip
          /\ status' = "complete"
          /\ lookupResult' = lk_location'
          /\ lk_pc' = "Sleep20"
          /\ UNCHANGED <<lk_value, lk_err>>
       \/ /\ status' = "failed"
          /\ lk_pc' = "Done"
          /\ lk_value' = ""
          /\ lk_err' = "provider error"
          /\ UNCHANGED <<lookupResult, lk_location>>
    /\ UNCHANGED <<lk_ip, checkerVars, monVars>>

\* the second sleep returns and the routine returns location, nil
LookupReturn ==
    /\ lk_pc = "Sleep20"
    /\ lk_pc' = "Done"
    /\ lk_value' = lk_location
    /\ lk_err' = "nil"
    /\ UNCHANGED <<lk_ip, status, lookupResult, lk_location, checkerVars, monVars>>

LookupQueryable == lk_pc # "NotStarted"

\* the "status" query handler of IPLookupWorkflow
LookupQueryStatus ==
    /\ LookupQueryable
    /\ answer' = [query |-> "lookup-status", value |-> status]
    /\ UNCHANGED nonAnswer

\* the "result" query handler of IPLookupWorkflow
LookupQueryResult ==
    /\ LookupQueryable
    /\ answer' = [query |-> "lookup-result", value |-> lookupResult]
    /\ UNCHANGED nonAnswer

-----------------------------------------------------------------------------
(* Part II: StatusCheckerWorkflow *)

TargetWorkflowID == "ip-lookup-observable"

\* fmt.Sprintf("Workflow %s is '%s'", id, status), and " - Result: %s" appended
\* when result is not empty
Summary(id, st, res) ==
    "Workflow " \o id \o " is '" \o st \o "'"
        \o (IF res # "" THEN " - Result: " \o res ELSE "")

lookupState == <<lk_pc, lk_ip, status, lookupResult, lk_location, lk_value,
                lk_err>>

\* the observer demo starts the checker on a target that is running
CheckerStart ==
    /\ sc_pc = "NotStarted"
    /\ lk_pc # "NotStarted"
    /\ sc_pc' = "StatusQuery"
    /\ UNCHANGED <<sc_status, sc_result, sc_resultErr, sc_summary, sc_err,
                   lookupState, monVars>>

\* statusQuery.Get(&status) returns: the target's status, or a failure
\* (the query was rejected or timed out), with which the checker fails
CheckerStatusReturns ==
    /\ sc_pc = "StatusQuery"
    /\ \/ /\ sc_status' = status
          /\ sc_pc' = "ResultQuery"
          /\ UNCHANGED sc_err
       \/ /\ sc_err' = "failed to query workflow: query failed"
          /\ sc_pc' = "Done"
          /\ UNCHANGED sc_status
    /\ UNCHANGED <<sc_result, sc_resultErr, sc_summary, lookupState, monVars>>

\* resultQuery.Get(&result) returns, its error is not looked at, and the
\* routine returns the summary
CheckerResultReturns ==
    /\ sc_pc = "ResultQuery"
    /\ \/ /\ sc_result' = lookupResult
          /\ sc_resultErr' = "nil"
       \/ /\ sc_result' = sc_result
          /\ sc_resultErr' = "query failed"
    /\ sc_summary' = Summary(TargetWorkflowID, sc_status, sc_result')
    /\ sc_err' = "nil"
    /\ sc_pc' = "Done"
    /\ UNCHANGED <<sc_status, lookupState, monVars>>

-----------------------------------------------------------------------------
(* The IPActivities value of the worker: its cache and its mutex, under     *)
(* calls of RecordLookup and CompensateLookup that activity goroutines make *)
(* concurrently. A call is followed statement by statement.                 *)

CallIds == 1..MaxCalls

\* the address the worker sees as its own
WorkerIP == "203.0.113.5"

\* the tokens a compensation may be asked for
Tokens == {RecordId(t, WorkerIP) : t \in UnixTimes}

\* a call that has not begun: its method and its argument
NewCall(op, arg) ==
    [op |-> op, arg |-> arg, pc |-> "new", id |-> "", ok |-> FALSE,
     ret |-> "", err |-> "none"]

CallKinds ==
    {NewCall("RecordLookup", WorkerIP)}
        \cup {NewCall("CompensateLookup", tok) : tok \in Tokens}

\* no activity goroutine calls into the cache
NoCalls ==
    /\ calls = [c \in CallIds |-> NewCall("CompensateLookup", "")]
    /\ mu = 0
    /\ cacheNil = TRUE

InitCalls ==
    /\ calls \in [CallIds -> CallKinds]
    /\ mu = 0
    /\ cacheNil = TRUE

\* i.cache[recordId] = ip
MapStore(m, k, v) == [x \in DOMAIN m \cup {k} |-> IF x = k THEN v ELSE m[x]]

\* delete(i.cache, recordId)
MapDelete(m, k) == [x \in DOMAIN m \ {k} |-> m[x]]

\* the call begins; RecordLookup builds its recordId from the clock before
\* it takes the lock
CallBegin(c) ==
    /\ calls[c].pc = "new"
    /\ \E t \in UnixTimes :
          calls' = [calls EXCEPT
                      ![c].pc = "lock",
                      ![c].id = IF calls[c].op = "RecordLookup"
                                THEN RecordId(t, calls[c].arg)
                                ELSE calls[c].arg]
    /\ UNCHANGED <<mu, cacheNil, cache>>

\* (mutant) a Lock that does not wait for the holder
CallLock_noExclusion(c) ==
    /\ calls[c].pc = "lock"
    /\ mu' = c
    /\ calls' = [calls EXCEPT ![c].pc = IF calls[c].op = "RecordLookup"
                                        THEN "checknil" ELSE "lookup"]
    /\ UNCHANGED <<cacheNil, cache>>

\* i.mu.Lock()
CallLock(c) ==
    /\ calls[c].pc = "lock"
    /\ mu = 0
    /\ mu' = c
    /\ calls' = [calls EXCEPT ![c].pc = IF calls[c].op = "RecordLookup"
                                        THEN "checknil" ELSE "lookup"]
    /\ UNCHANGED <<cacheNil, cache>>

\* RecordLookup: `if i.cache == nil`
RecordCheckNil(c) ==
    /\ calls[c].pc = "checknil"
    /\ calls' = [calls EXCEPT ![c].pc = IF cacheNil THEN "make" ELSE "store"]
    /\ UNCHANGED <<mu, cacheNil, cache>>

\* RecordLookup: `i.cache = make(map[string]string)`
RecordMake(c) ==
    /\ calls[c].pc = "make"
    /\ cache' = EmptyCache
    /\ cacheNil' = FALSE
    /\ calls' = [calls EXCEPT ![c].pc = "store"]
    /\ UNCHANGED mu

\* RecordLookup: `i.cache[recordId] = ip`, and the return value is set
RecordStore(c) ==
    /\ calls[c].pc = "store"
    /\ cache' = MapStore(cache, calls[c].id, calls[c].arg)
    /\ calls' = [calls EXCEPT ![c].pc = "unlock", ![c].ret = calls[c].id,
                              ![c].err = "nil"]
    /\ UNCHANGED <<mu, cacheNil>>

\* CompensateLookup: `if _, ok := i.cache[recordId]; ok` (reading a nil map
\* finds nothing)
CompensateTest(c) ==
    /\ calls[c].pc = "lookup"
    /\ LET found == calls[c].id \in DOMAIN cache IN
       calls' = [calls EXCEPT ![c].ok = found,
                              ![c].pc = IF found THEN "delete" ELSE "unlock",
                              ![c].err = IF found THEN @ ELSE "nil"]
    /\ UNCHANGED <<mu, cacheNil, cache>>

\* CompensateLookup: `delete(i.cache, recordId)`, then `return nil`
CompensateDelete(c) ==
    /\ calls[c].pc = "delete"
    /\ cache' = MapDelete(cache, calls[c].id)
    /\ calls' = [calls EXCEPT ![c].pc = "unlock", ![c].err = "nil"]
    /\ UNCHANGED <<mu, cacheNil>>

\* the deferred i.mu.Unlock() runs and the call returns
CallUnlock(c) ==
    /\ calls[c].pc = "unlock"
    /\ mu' = IF mu = c THEN 0 ELSE mu
    /\ calls' = [calls EXCEPT ![c].pc = "done"]
    /\ UNCHANGED <<cacheNil, cache>>

\* everything but the cache and the calls into it
callFrame == <<code, wfState, pc, waiting, hist, pos, locals, result, err,
               cancelRequested, wftError, restarts, reads, sigVars, inst,
               replies, dispatchVars>>

-----------------------------------------------------------------------------
(* The task queue ip-address-go: the starter programs put instances on it,  *)
(* one worker program polls it. A worker executes a workflow task or an     *)
(* activity task only when the type it names was registered; a task naming  *)
(* an unregistered type fails and is handed out again.                      *)

\* the two mains of worker/main.go, and main_clean as QUICK_START.md says it
\* has to be edited before the monitor is started
WorkerPrograms == {"main", "main_clean", "quick_start"}

\* w.RegisterWorkflow(...)
RegisteredWorkflows(w) ==
    CASE w = "main"        -> {"GetAddressFromIP"}
      [] w = "main_clean"  -> {"GetAddressFromIPClean", "GetAddressFromIPV1",
                               "GetAddressFromIPV2", "GetAddressFromIP"}
      [] w = "quick_start" -> {"GetAddressFromIPClean", "GetAddressFromIPV1",
                               "GetAddressFromIPV2", "GetAddressFromIP",
                               "IPMonitorWorkflow"}

\* w.RegisterActivity(activities): the exported methods of *IPActivities
RegisteredActivities ==
    {"GetIP", "GetLocationInfo", "GetTimeZone", "RecordLookup",
     "CompensateLookup"}

\* the types the starter programs hand to ExecuteWorkflow
StarterTypes ==
    {"GetAddressFromIPV2", "GetAddressFromIPClean", "IPMonitorWorkflow",
     "IPLookupWorkflow", "StatusCheckerWorkflow"}

\* the activities a fresh instance of the type invokes, in order
ActivitiesOf(t) ==
    CASE t = "GetAddressFromIPV2"    -> <<"GetIP", "GetLocationInfo",
                                          "GetTimezone">>
      [] t = "GetAddressFromIPClean" -> <<"GetIP", "GetLocationInfo",
                                          "GetTimezone">>
      [] t = "IPMonitorWorkflow"     -> <<"GetLocationInfo">>
      [] t = "IPLookupWorkflow"      -> <<"GetLocationInfo">>
      [] t = "StatusCheckerWorkflow" -> << >>

\* nothing was started on the queue
NoTasks ==
    /\ workerProgram = "main_clean"
    /\ tasks = [t \in StarterTypes |-> [state |-> "none", next |-> 1]]

InitDispatch ==
    /\ workerProgram \in WorkerPrograms
    /\ tasks = [t \in StarterTypes |-> [state |-> "none", next |-> 1]]

\* c.ExecuteWorkflow(ctx, options, <t>, ...): the server accepts any type name
StarterStarts(t) ==
    /\ tasks[t].state = "none"
    /\ tasks' = [tasks EXCEPT ![t].state = "scheduled"]
    /\ UNCHANGED workerProgram

\* the worker polls the workflow task of a registered type and runs it
WorkerExecutes(t) ==
    /\ tasks[t].state = "scheduled"
    /\ t \in RegisteredWorkflows(workerProgram)
    /\ tasks' = [tasks EXCEPT ![t].state = "running"]
    /\ UNCHANGED workerProgram

\* the worker polls the workflow task of a type it never registered
WorkerRejects(t) ==
    /\ tasks[t].state = "scheduled"
    /\ t \notin RegisteredWorkflows(workerProgram)
    /\ tasks' = [tasks EXCEPT ![t].state = "taskFailed"]
    /\ UNCHANGED workerProgram

\* the server hands a failed task out again
TaskRetried(t) ==
    /\ tasks[t].state \in {"taskFailed", "activityFailed"}
    /\ tasks' = [tasks EXCEPT ![t].state =
                    IF @ = "taskFailed" THEN "scheduled" ELSE "running"]
    /\ UNCHANGED workerProgram

\* the worker runs the next activity of the instance
ActivityRuns(t) ==
    /\ tasks[t].state = "running"
    /\ tasks[t].next <= Len(ActivitiesOf(t))
    /\ ActivitiesOf(t)[tasks[t].next] \in RegisteredActivities
    /\ tasks' = [tasks EXCEPT ![t].next = @ + 1]
    /\ UNCHANGED workerProgram

\* the next activity names a type the worker never registered
ActivityRejected(t) ==
    /\ tasks[t].state = "running"
    /\ tasks[t].next <= Len(ActivitiesOf(t))
    /\ ActivitiesOf(t)[tasks[t].next] \notin RegisteredActivities
    /\ tasks' = [tasks EXCEPT ![t].state = "activityFailed"]
    /\ UNCHANGED workerProgram

\* the routine returns after its last activity
WorkflowCompletes(t) ==
    /\ tasks[t].state = "running"
    /\ tasks[t].next > Len(ActivitiesOf(t))
    /\ tasks' = [tasks EXCEPT ![t].state = "completed"]
    /\ UNCHANGED workerProgram

\* everything but the task queue
dispatchFrame == <<orchVars, sigVars, inst, replies, lockVars>>

-----------------------------------------------------------------------------
(* Part III: two instances of the orchestration routines on one worker.     *)
(* Each instance has its own workflow.Context, locals and history; the one  *)
(* IPActivities value, and with it the cache, is shared.                    *)

Instances == {1, 2}

PairRoutines == {"GetAddressFromIPClean", "GetAddressFromIPV2_record"}

\* a new instance of routine c
Fresh(c) ==
    [code |-> c, wfState |-> "NotStarted", pc |-> 1, waiting |-> FALSE,
     hist |-> << >>, ip |-> "", location |-> "", timezone |-> "",
     version |-> NoVersion, recordedIp |-> "",
     result |-> EmptyResult(c), err |-> NoErr]

Started(st) == [st EXCEPT !.wfState = "Running"]

CanIssue(st) ==
    /\ st.wfState = "Running"
    /\ ~st.waiting
    /\ st.pc <= Len(Program(st.code))

\* the routine runs its next statement: GetVersion (first execution: records
\* maxSupported), the skipped else branch, ExecuteActivity or Sleep
Issued(st) ==
    LET s == Program(st.code)[st.pc]
        arg == IF s.name = "GetIP" THEN "" ELSE st.ip
        entry(n, a) == [cmd |-> n, arg |-> a, res |-> "pending", val |-> "",
                        by |-> st.code]
    IN  CASE s.op = "getversion" ->
                [st EXCEPT !.version = s.maxSupported,
                           !.hist = Append(@, [entry("Marker", s.name) EXCEPT
                                      !.res = "ok", !.val = s.maxSupported]),
                           !.pc = @ + 1]
          [] s.op = "activity" /\ s.gated /\ st.version # 1 ->
                [st EXCEPT !.pc = @ + 1]
          [] s.op = "activity" /\ (s.gated => st.version = 1) ->
                [st EXCEPT !.hist = Append(@, entry(s.name, arg)),
                           !.waiting = TRUE]
          [] s.op = "sleep" ->
                [st EXCEPT !.hist = Append(@, entry("Timer", "")),
                           !.waiting = TRUE]

Awaiting(st) ==
    /\ st.wfState = "Running"
    /\ st.waiting
    /\ st.hist[Len(st.hist)].res = "pending"

\* the reply o to the pending activity or timer reaches the instance
Replied(st, o) == [st EXCEPT !.hist = SetLast(@, o.res, o.val)]

CanGet(st) ==
    /\ st.wfState = "Running"
    /\ st.waiting
    /\ st.hist[Len(st.hist)].res # "pending"

\* Future.Get or Sleep returns in the routine
Got(st) ==
    LET s == Program(st.code)[st.pc]
        e == st.hist[Len(st.hist)]
    IN  IF s.op = "sleep"
        THEN [st EXCEPT !.pc = @ + 1, !.waiting = FALSE]
        ELSE IF e.res = "ok"
        THEN [st EXCEPT
                !.pc = @ + 1,
                !.waiting = FALSE,
                !.ip = IF s.name = "GetIP" THEN e.val ELSE @,
                !.location = IF s.name = "GetLocationInfo" THEN e.val ELSE @,
                !.timezone = IF s.name = "GetTimezone" THEN e.val ELSE @,
                !.recordedIp = IF s.name = "RecordLookup" THEN e.val ELSE @]
        ELSE [st EXCEPT
                !.waiting = FALSE,
                !.wfState = "Failed",
                !.err = WrapErr(s.wrap, e.val),
                !.result = EmptyResult(st.code)]

CanReturn(st) ==
    /\ st.wfState = "Running"
    /\ ~st.waiting
    /\ st.pc = Len(Program(st.code)) + 1

Returned(st) ==
    [st EXCEPT !.wfState = "Completed",
               !.result = MakeResult(st.code, st.ip, st.location, st.timezone,
                                     st.version)]

\* what the provider may answer to the pending command of st
RepliesFor(st) ==
    LET e == st.hist[Len(st.hist)]
    IN  IF e.cmd = "Timer" THEN {[res |-> "ok", val |-> ""]}
        ELSE ActivityOutcomes(e.cmd, e.arg)

\* (mutant) the reply is stored as if ip were a package-level variable
Reply_global(i, o) ==
    [j \in Instances |->
        IF j = i THEN Replied(inst[i], o)
        ELSE [inst[j] EXCEPT !.ip = o.val]]

\* instance i is given the reply o
Reply(i, o) == [inst EXCEPT ![i] = Replied(inst[i], o)]

InitPair ==
    /\ inst \in [Instances -> {Fresh(c) : c \in PairRoutines}]
    /\ replies = [i \in Instances |-> << >>]
    /\ NoCalls
    /\ NoTasks

\* no pair of instances is started
NoPair ==
    /\ inst = [i \in Instances |-> Fresh("GetAddressFromIPClean")]
    /\ replies = [i \in Instances |-> << >>]

PairIdle == NoPair /\ NoCalls /\ NoTasks

PairStart(i) ==
    /\ inst[i].wfState = "NotStarted"
    /\ inst' = [inst EXCEPT ![i] = Started(inst[i])]
    /\ UNCHANGED <<replies, cache>>

PairIssue(i) ==
    /\ CanIssue(inst[i])
    /\ inst' = [inst EXCEPT ![i] = Issued(inst[i])]
    /\ UNCHANGED <<replies, cache>>

\* the activity worker runs the pending activity of instance i (RecordLookup
\* writes the shared cache), or the engine fires its timer
PairCompletes(i) ==
    /\ Awaiting(inst[i])
    /\ \E o \in RepliesFor(inst[i]) :
          LET e == inst[i].hist[Len(inst[i].hist)] IN
          /\ inst' = Reply(i, o)
          /\ replies' = [replies EXCEPT ![i] = Append(@, o)]
          /\ cache' = IF e.cmd = "RecordLookup" /\ o.res = "ok"
                      THEN [k \in DOMAIN cache \cup {o.val} |->
                               IF k = o.val THEN e.arg ELSE cache[k]]
                      ELSE cache

PairGet(i) ==
    /\ CanGet(inst[i])
    /\ inst' = [inst EXCEPT ![i] = Got(inst[i])]
    /\ UNCHANGED <<replies, cache>>

PairReturn(i) ==
    /\ CanReturn(inst[i])
    /\ inst' = [inst EXCEPT ![i] = Returned(inst[i])]
    /\ UNCHANGED <<replies, cache>>

\* everything but the pair and the cache
pairFrame == <<code, wfState, pc, waiting, hist, pos, locals, result, err,
               cancelRequested, wftError, restarts, reads, sigVars, lockVars,
               dispatchVars>>

-----------------------------------------------------------------------------
(* Specifications *)

\* Part I: an orchestration instance; no monitor or lookup is started
Init == InitOrch /\ InitMon /\ InitLookup /\ config.MaxChecks = 0 /\ PairIdle

Next ==
    \/ StartWorkflow /\ UNCHANGED <<sigVars, pairVars>>
    \/ SkipGated /\ UNCHANGED <<sigVars, pairVars>>
    \/ ExecuteActivity /\ UNCHANGED <<sigVars, pairVars>>
    \/ FutureGet /\ UNCHANGED <<sigVars, pairVars>>
    \/ Sleep /\ UNCHANGED <<sigVars, pairVars>>
    \/ SleepReturns /\ UNCHANGED <<sigVars, pairVars>>
    \/ GetVersion /\ UNCHANGED <<sigVars, pairVars>>
    \/ WorkflowReturn /\ UNCHANGED <<sigVars, pairVars>>
    \/ ActivityCompletes /\ UNCHANGED <<sigVars, pairVars>>
    \/ ActivityAttemptLost /\ UNCHANGED <<sigVars, pairVars>>
    \/ TimerFires /\ UNCHANGED <<sigVars, pairVars>>
    \/ RequestCancel /\ UNCHANGED <<sigVars, pairVars>>
    \/ \E c \in Routines : RestartWorker(c) /\ UNCHANGED <<sigVars, pairVars>>

Spec == Init /\ [][Next]_vars

\* Part II: a run of one of the two demo programs, the monitor with its
\* signalling client or the lookup with its observer; a step that is not a
\* query hands back no answer
InitSignals ==
    InitOrch /\ code = "GetAddressFromIP" /\ InitMon /\ InitLookup /\ PairIdle

Silent == answer' = NoAnswer /\ UNCHANGED <<orchVars, pairVars>>

NextSignals ==
    \/ MonitorStart /\ Silent
    \/ LoopTop /\ Silent
    \/ SelectBlocks /\ Silent
    \/ HandlePause /\ Silent
    \/ HandleResume /\ Silent
    \/ HandleChangeIP /\ Silent
    \/ HandleChangeInterval /\ Silent
    \/ HandleStop /\ Silent
    \/ HandleTimer /\ Silent
    \/ SkipCheck /\ Silent
    \/ PerformCheck /\ Silent
    \/ CheckReturns /\ Silent
    \/ CheckCompletes /\ Silent
    \/ \E i \in 1..Len(Script) :
          SendSignal(Script[i].name, Script[i].payload) /\ Silent
    \/ MonitorTimerFires /\ Silent
    \/ StaleTimerFires /\ Silent
    \/ MonitorCancel /\ Silent
    \/ MonitorRestart /\ Silent
    \/ QueryStatus /\ UNCHANGED <<orchVars, pairVars>>
    \/ QueryHistory /\ UNCHANGED <<orchVars, pairVars>>
    \/ QueryStats /\ UNCHANGED <<orchVars, pairVars>>
    \/ \E addr \in {"8.8.8.8"} : LookupStart(addr) /\ Silent
    \/ LookupSleepReturns /\ Silent
    \/ LookupActivityReturns /\ Silent
    \/ LookupReturn /\ Silent
    \/ CheckerStart /\ Silent
    \/ CheckerStatusReturns /\ Silent
    \/ CheckerResultReturns /\ Silent
    \/ LookupQueryStatus /\ UNCHANGED <<orchVars, pairVars>>
    \/ LookupQueryResult /\ UNCHANGED <<orchVars, pairVars>>

SpecSignals == InitSignals /\ [][NextSignals]_vars

\* Part III: two concurrent instances
\* The routines that are registered with the worker as they are in the
\* repository, with the scheduling the engine provides: a workflow task is
\* run whenever the routine has a step to take, a scheduled activity is run
\* and reports, a started timer fires. The worker may be restarted, with the
\* same routine or with the gated edit of it.
LiveRoutines == {"GetAddressFromIP", "GetAddressFromIPClean",
                 "GetAddressFromIPV1", "GetAddressFromIPV2"}

InitLive == Init /\ code \in LiveRoutines

\* the steps of the routine itself
RoutineStep ==
    \/ SkipGated \/ ExecuteActivity \/ FutureGet \/ Sleep \/ SleepReturns
    \/ GetVersion \/ WorkflowReturn

NextLive ==
    \/ StartWorkflow /\ UNCHANGED <<sigVars, pairVars>>
    \/ SkipGated /\ UNCHANGED <<sigVars, pairVars>>
    \/ ExecuteActivity /\ UNCHANGED <<sigVars, pairVars>>
    \/ FutureGet /\ UNCHANGED <<sigVars, pairVars>>
    \/ Sleep /\ UNCHANGED <<sigVars, pairVars>>
    \/ SleepReturns /\ UNCHANGED <<sigVars, pairVars>>
    \/ GetVersion /\ UNCHANGED <<sigVars, pairVars>>
    \/ WorkflowReturn /\ UNCHANGED <<sigVars, pairVars>>
    \/ ActivityCompletes /\ UNCHANGED <<sigVars, pairVars>>
    \/ ActivityAttemptLost /\ UNCHANGED <<sigVars, pairVars>>
    \/ TimerFires /\ UNCHANGED <<sigVars, pairVars>>
    \/ RequestCancel /\ UNCHANGED <<sigVars, pairVars>>
    \/ \E c \in LiveRoutines : RestartWorker(c) /\ UNCHANGED <<sigVars, pairVars>>

SpecLive ==
    /\ InitLive
    /\ [][NextLive]_vars
    /\ WF_vars(RoutineStep /\ UNCHANGED <<sigVars, pairVars>>)
    /\ WF_vars(ActivityCompletes /\ UNCHANGED <<sigVars, pairVars>>)
    /\ WF_vars(TimerFires /\ UNCHANGED <<sigVars, pairVars>>)

\* A monitor that runs without a check limit for a long time: the entries of
\* its first n checks, all of the initial address and all successful, taken
\* one time unit apart before the point where the model picks the run up.
Earlier(n) ==
    [k \in 1..n |-> [Timestamp |-> k - n - 1,
                     IP |-> "8.8.8.8",
                     Location |-> "Location of 8.8.8.8",
                     Error |-> ""]]

\* the monitor at the top of its loop after n such checks
LongRunning(n) ==
    /\ config = [InitialIP |-> "8.8.8.8", CheckInterval |-> 5, MaxChecks |-> 0]
    /\ m_pc = "LoopTop"
    /\ currentIP = config.InitialIP
    /\ checkInterval = config.CheckInterval
    /\ isPaused = FALSE
    /\ shouldStop = FALSE
    /\ totalChecks = n
    /\ history = Bounded(Earlier(n))
    /\ lastCheckTime = Earlier(n)[n].Timestamp
    /\ lastResult = Earlier(n)[n].Location
    /\ checkTime = Earlier(n)[n].Timestamp
    /\ chans = [c \in SignalNames |-> << >>]
    /\ readyBranch = "none"
    /\ timer = "none"
    /\ staleTimers = 0
    /\ checks = << >>
    /\ now = 1
    /\ sent = << >>
    /\ applied = << >>
    /\ m_cancel = FALSE
    /\ m_err = "running"
    /\ m_replays = 0
    /\ answer = NoAnswer

\* the monitor before its start, or picked up around its 50th check
InitHistory ==
    /\ InitOrch /\ code = "GetAddressFromIP" /\ InitLookup /\ PairIdle
    /\ \/ InitMon
       \/ \E n \in (HistoryLimit - 1)..(HistoryLimit + 1) : LongRunning(n)

\* The monitor driven from the command line, with the scheduling the engine
\* provides: a workflow task is run whenever the routine has a step to take,
\* and an activity that was scheduled is run and reports.
InitCli == InitSignals

\* the steps of the routine itself
MonitorStep ==
    \/ LoopTop \/ SelectBlocks
    \/ HandlePause \/ HandleResume \/ HandleChangeIP \/ HandleChangeInterval
    \/ HandleStop \/ HandleTimer
    \/ SkipCheck \/ PerformCheck \/ CheckReturns

NextCli ==
    \/ MonitorStart /\ Silent
    \/ LoopTop /\ Silent
    \/ SelectBlocks /\ Silent
    \/ HandlePause /\ Silent
    \/ HandleResume /\ Silent
    \/ HandleStop /\ Silent
    \/ HandleTimer /\ Silent
    \/ SkipCheck /\ Silent
    \/ PerformCheck /\ Silent
    \/ CheckReturns /\ Silent
    \/ CheckCompletes /\ Silent
    \/ \E sig \in CliSignals : SendCli(sig.name, sig.payload) /\ Silent
    \/ MonitorTimerFires /\ Silent
    \/ StaleTimerFires /\ Silent
    \/ QueryStatus /\ UNCHANGED <<orchVars, pairVars>>

SpecCli ==
    /\ InitCli
    /\ [][NextCli]_vars
    /\ WF_vars(MonitorStep /\ Silent)
    /\ WF_vars(CheckCompletes /\ Silent)

\* the long-running monitor, driven from the command line
SpecHistory == InitHistory /\ [][NextCli]_vars

\* concurrent calls into one IPActivities value
InitCache ==
    /\ InitOrch /\ code = "GetAddressFromIP"
    /\ InitMon /\ config.MaxChecks = 0
    /\ InitLookup
    /\ NoPair
    /\ InitCalls
    /\ NoTasks

NextCache ==
    \/ \E c \in CallIds : CallBegin(c) /\ UNCHANGED callFrame
    \/ \E c \in CallIds : CallLock(c) /\ UNCHANGED callFrame
    \/ \E c \in CallIds : RecordCheckNil(c) /\ UNCHANGED callFrame
    \/ \E c \in CallIds : RecordMake(c) /\ UNCHANGED callFrame
    \/ \E c \in CallIds : RecordStore(c) /\ UNCHANGED callFrame
    \/ \E c \in CallIds : CompensateTest(c) /\ UNCHANGED callFrame
    \/ \E c \in CallIds : CompensateDelete(c) /\ UNCHANGED callFrame
    \/ \E c \in CallIds : CallUnlock(c) /\ UNCHANGED callFrame

SpecCache == InitCache /\ [][NextCache]_vars

InitPairs ==
    /\ InitOrch /\ code = "GetAddressFromIP"
    /\ InitMon /\ config.MaxChecks = 0
    /\ InitLookup
    /\ InitPair

NextPairs ==
    \/ \E i \in Instances : PairStart(i) /\ UNCHANGED pairFrame
    \/ \E i \in Instances : PairIssue(i) /\ UNCHANGED pairFrame
    \/ \E i \in Instances : PairCompletes(i) /\ UNCHANGED pairFrame
    \/ \E i \in Instances : PairGet(i) /\ UNCHANGED pairFrame
    \/ \E i \in Instances : PairReturn(i) /\ UNCHANGED pairFrame

SpecPairs == InitPairs /\ [][NextPairs]_vars

-----------------------------------------------------------------------------
(* Observations on the history *)

IsPrefix(s, t) == Len(s) <= Len(t) /\ \A i \in 1..Len(s) : s[i] = t[i]

CmdNames(h) == [i \in 1..Len(h) |-> h[i].cmd]

\* the capability invocations and marker records of a history, in order
\* (timers left out)
IsStep(n) == n # "Timer"
StepNames(h) == SelectSeq(CmdNames(h), IsStep)

Count(h, name) == Cardinality({i \in 1..Len(h) : h[i].cmd = name})

Succeeded(name) == \E i \in 1..Len(hist) : hist[i].cmd = name /\ hist[i].res = "ok"

Terminal == wfState \in {"Completed", "Failed"}

\* the history holds a GetLocationInfo that the pre-change routine issued
PreChangeHistory ==
    \E i \in 1..Len(hist) :
        hist[i].cmd = "GetLocationInfo" /\ hist[i].by = "GetAddressFromIP"

\* no command of the history was issued by the breaking edit of the exercise
NoBreakingHistory ==
    \A i \in 1..Len(hist) : hist[i].by # "GetAddressFromIP_BREAKING"

-----------------------------------------------------------------------------
(* C1: an instance whose history (GetIP, timer, GetLocationInfo, no marker)   *)
(* was recorded by the pre-change routine replays against a version-gated    *)
(* routine without a workflow-task error, reads DefaultVersion at the        *)
(* marker, and its history stays exactly GetIP, Timer, GetLocationInfo: no   *)
(* timezone invocation and no marker is added.                               *)
C1_ReplayOfOldHistory ==
    (code \in VersionGated /\ PreChangeHistory) =>
        /\ wftError = "none"
        /\ version \in {NoVersion, DefaultVersion}
        /\ (pc > 3 => version = DefaultVersion)
        /\ CmdNames(hist) = <<"GetIP", "Timer", "GetLocationInfo">>

C1_Witness ==
    /\ code \in VersionGated
    /\ PreChangeHistory
    /\ restarts > 0
    /\ wfState = "Completed"
    /\ version = DefaultVersion
    /\ pos = 3

(* C2 as stated: a terminated version-gated instance whose marker read 1 and  *)
(* whose GetIP and GetLocationInfo succeeded invoked the timezone capability *)
(* exactly once; one whose marker read DefaultVersion invoked it zero times. *)
C2_Original ==
    (code \in VersionGated /\ Terminal) =>
        /\ (version = 1 /\ Succeeded("GetIP") /\ Succeeded("GetLocationInfo"))
              => Count(hist, "GetTimezone") = 1
        /\ version = DefaultVersion => Count(hist, "GetTimezone") = 0

(* C2 amended: as above, except that an instance cancelled before the         *)
(* timezone invocation is issued invokes it zero times and fails with the    *)
(* cancellation error; it is never invoked twice.                            *)
C2_TimezoneExactlyOnce ==
    (code \in VersionGated /\ Terminal) =>
        /\ Count(hist, "GetTimezone") <= 1
        /\ (version = 1 /\ Succeeded("GetIP") /\ Succeeded("GetLocationInfo")
              /\ Count(hist, "GetTimezone") = 0)
              => (cancelRequested /\ wfState = "Failed" /\ err.cause = "canceled")
        /\ version = DefaultVersion => Count(hist, "GetTimezone") = 0

C2_Witness ==
    /\ code \in VersionGated
    /\ wfState = "Completed"
    /\ version = 1
    /\ Count(hist, "GetTimezone") = 1

(* C3: an instance that completed the record step and then fails has had     *)
(* CompensateLookup invoked with its token, and its record is no longer in   *)
(* the cache.                                                                *)
C3_CompensatedBeforeFailure ==
    (code = "GetAddressFromIPV2_record" /\ wfState = "Failed"
        /\ recordedIp # "") =>
        /\ \E i \in 1..Len(hist) :
              hist[i].cmd = "CompensateLookup" /\ hist[i].arg = recordedIp
        /\ recordedIp \notin DOMAIN cache

C6_FailureIsFinal ==
    /\ \A i \in 1..Len(hist) : hist[i].res = "fail" => i = Len(hist)
    /\ (wftError = "none" /\ wfState # "NotStarted" /\ ~waiting /\ pos = Len(hist)
          /\ pos > 0 /\ hist[pos].res = "fail")
          => (wfState = "Failed" /\ err.cause = hist[pos].val)
    /\ wfState = "Failed" => (result = EmptyResult(code) /\ err # NoErr)

C6_Witness ==
    /\ wfState = "Failed"
    /\ hist # << >>
    /\ hist[Len(hist)].res = "fail"
    /\ hist[Len(hist)].cmd = "GetLocationInfo"
    /\ location = ""

-----------------------------------------------------------------------------
(* Observations on the monitor *)

Max(S) == CHOOSE x \in S : \A y \in S : y <= x

\* the place of a signal in the client's script, which is its send index
PositionOf(name) == CHOOSE i \in 1..Len(Script) : Script[i].name = name

\* the handler of signal `name` ran among the first n handler runs
AppliedWithin(n, name) == \E i \in 1..n : applied[i] = PositionOf(name)

\* the payload of the most recently applied signal `name`, or the default
LastPayload(name, default) ==
    LET idx == {i \in 1..Len(applied) : sent[applied[i]].name = name}
    IN IF idx = {} THEN default ELSE sent[applied[Max(idx)]].payload

\* the checks whose ExecuteActivity has an outcome
CompletedChecks == {k \in 1..Len(checks) : checks[k].res # "pending"}

(* C4: the signals pause, change-ip, resume sent in that order are applied    *)
(* in that order (the handlers run in send order), and no check against the  *)
(* initial IP is started once resume has been applied.                       *)
C4_SignalOrder ==
    /\ \A i, j \in 1..Len(applied) : i < j => applied[i] < applied[j]
    /\ \A k \in 1..Len(checks) :
          AppliedWithin(checks[k].seen, "resume") => checks[k].ip # config.InitialIP

(* C7: a monitor that was asked to cancel and then returned (without having  *)
(* been told to stop) returned the cancellation error.                       *)
C7_CancelledMonitorFails ==
    (m_cancel /\ m_pc = "Done" /\ ~shouldStop) => m_err = "canceled"

(* C8: a step that answers a query (status, history, stats of the monitor;   *)
(* status, result of the lookup) leaves every workflow state variable        *)
(* unchanged, schedules no activity, starts no timer and does not move the   *)
(* routine.                                                                  *)
C8_QueriesReadOnly ==
    [][answer' # NoAnswer =>
          UNCHANGED <<monState, status, lookupResult, checks, timer,
                      staleTimers, m_pc, lk_pc>>]_vars

C8_Witness ==
    /\ answer.query = "stats"
    /\ answer.value.total_checks > 0
    /\ totalChecks = answer.value.total_checks

(* C9: wherever a status query can be answered its snapshot is consistent:   *)
(* CurrentIP and CheckInterval are those of the most recently applied        *)
(* change-ip / change-interval signal (or the config), TotalChecks is the    *)
(* number of completed checks, LastResult and LastCheckTime are those of the *)
(* most recently completed check, whose history entry carries the IP the     *)
(* check was started with; and the answer handed back is that snapshot.      *)
C9_SnapshotConsistent ==
    MonitorQueryable =>
        LET s == StatusQuery IN
        /\ s.CurrentIP = LastPayload("change-ip", config.InitialIP)
        /\ s.CheckInterval = LastPayload("change-interval", config.CheckInterval)
        /\ s.TotalChecks = Cardinality(CompletedChecks)
        /\ CompletedChecks = {} =>
              (s.LastResult = "" /\ s.LastCheckTime = ZeroTime /\ s.History = << >>)
        /\ CompletedChecks # {} =>
              LET c == checks[Max(CompletedChecks)]
                  e == s.History[Len(s.History)]
              IN /\ s.LastCheckTime = c.time
                 /\ s.LastResult = IF c.res = "ok" THEN c.val ELSE "ERROR: " \o c.val
                 /\ e.IP = c.ip
                 /\ e.Timestamp = c.time
        /\ answer.query = "status" => answer.value = s

C9_Witness ==
    /\ answer.query = "status"
    /\ answer.value.TotalChecks > 0
    /\ answer.value.CurrentIP = "1.1.1.1"
    /\ answer.value.History[Len(answer.value.History)].IP = "1.1.1.1"

(* C10: the monitor is never blocked on a single source (the outcome of its  *)
(* check) while a signal is pending and unprocessed in a channel.            *)
C10_NeverBlockedOnOneSource ==
    ~(/\ m_pc = "ActivityWait"
      /\ CurrentCheck.res = "pending"
      /\ \E n \in SignalNames : chans[n] # << >>)

(* C11: no failure returned inside a workflow is silently discarded: a       *)
(* checker whose result query returned a failure does not end without a      *)
(* failure of its own.                                                       *)
C11_NoFailureDiscarded ==
    (sc_pc = "Done" /\ sc_resultErr # "nil") => sc_err # "nil"

\* what the engine stores for a completed instance, and what a client that
\* decodes it into the result type of routine c gets
Payload == Encode(Schema(code), result)

ClientGet(c) == Decode(Schema(c), Payload)

(* C12: every result record returned by an orchestration routine round-trips *)
(* through serialization: decoding the stored result gives the record the    *)
(* routine returned.                                                         *)
C12_RoundTrip ==
    wfState = "Completed" => ClientGet(code) = result

\* the value that the first invocation of `name` in the history returned
ValueOf(name) ==
    hist[CHOOSE i \in 1..Len(hist) : hist[i].cmd = name].val

AllSucceeded ==
    \A i \in 1..Len(hist) : hist[i].cmd # "Marker" => hist[i].res = "ok"

C14_Lifecycle ==
    [][ /\ wfState' # wfState =>
              <<wfState, wfState'>> \in {<<"NotStarted", "Running">>,
                                         <<"Running", "Completed">>,
                                         <<"Running", "Failed">>}
        /\ Terminal => UNCHANGED <<wfState, result, err, hist, cache>>
        /\ wfState' = "Completed" =>
              (err' = NoErr /\ result' # EmptyResult(code'))
        /\ wfState' = "Failed" => err' # NoErr
        /\ wfState' = "NotStarted" => hist' = << >> ]_vars

C14_Witness ==
    /\ wfState = "Completed"
    /\ code = "GetAddressFromIPV2_record"
    /\ result # EmptyResult(code)
    /\ err = NoErr
    /\ Count(hist, "GetTimezone") = 1

\* an instance run forward as far as it gets without a further reply
RECURSIVE Settle(_)
Settle(st) ==
    IF CanIssue(st) THEN Settle(Issued(st))
    ELSE IF CanGet(st) THEN Settle(Got(st))
    ELSE IF CanReturn(st) THEN Returned(st)
    ELSE st

\* routine c run alone on the replies rs
RECURSIVE Solo(_, _)
Solo(c, rs) ==
    IF rs = << >> THEN Settle(Started(Fresh(c)))
    ELSE Settle(Replied(Solo(c, SubSeq(rs, 1, Len(rs) - 1)), rs[Len(rs)]))

C16_RecordIdempotent ==
    code = "GetAddressFromIPV2_record" =>
        /\ Cardinality(DOMAIN cache) <= 1
        /\ (recordedIp # "" /\ restarts = 0) => DOMAIN cache = {recordedIp}

(* C17: a version-gated run reads the marker once, and the marker sits at    *)
(* the point where old and new behaviour first diverge: in a history that    *)
(* recorded marker value 1, the next capability invocation after the marker  *)
(* is the gated timezone invocation, none that both branches make.           *)
C17_MarkerAtDivergence ==
    code \in VersionGated =>
        /\ Count(hist, "Marker") <= 1
        /\ \A i \in 1..(Len(hist) - 1) :
              (hist[i].cmd = "Marker" /\ hist[i].val = 1 /\ hist[i].by = code)
                  => hist[i + 1].cmd = "GetTimezone"

(* C18: the version value an instance obtains at its first marker read is    *)
(* the value it obtains at every later read, in the same run and in every    *)
(* replay, whatever maximum version the deployed routine then declares.      *)
C18_VersionStable ==
    /\ \A i, j \in 1..Len(reads) : reads[i] = reads[j]
    /\ version # NoVersion => (reads # << >> /\ version = reads[Len(reads)])

C18_Witness ==
    /\ code = "GetAddressFromIP_EXAMPLE2"
    /\ reads = <<1, 1>>
    /\ version = 1
    /\ wfState = "Completed"

\* the history holds an invocation from beyond the marker read that no marker
\* precedes: a replay reads DefaultVersion
DefaultHistory ==
    \E i \in 1..Len(hist) :
        /\ hist[i].cmd \in {"GetLocationInfo", "GetTimezone"}
        /\ \A j \in 1..(i - 1) : hist[j].cmd # "Marker"

\* the history holds a marker that an edition with a higher maximum recorded
NewerMarker ==
    \E i \in 1..Len(hist) : hist[i].cmd = "Marker" /\ hist[i].val > 1

(* C19: with minSupported raised to 1, an instance in flight whose replay    *)
(* reads DefaultVersion fails at the marker read and gets no further, and    *)
(* (rollbacks of the maximum aside) only such an instance fails so; every    *)
(* other instance passes the marker read, one whose marker the version-gated *)
(* routine recorded reads 1, and one that completes has fetched the          *)
(* timezone.                                                                 *)
C19_MinSupportedRaised ==
    /\ (wftError = "version" /\ ~NewerMarker) =>
          (code \in MinRaised /\ DefaultHistory)
    /\ (code \in MinRaised /\ DefaultHistory) =>
          /\ wfState = "Running"
          /\ version = NoVersion
          /\ Program(code)[pc].op # "activity" \/ ~Program(code)[pc].gated
          /\ pc <= 3
    /\ (code \in MinRaised /\ ~DefaultHistory) =>
          /\ version # NoVersion => version >= 1
          /\ (version # NoVersion
                /\ \E i \in 1..Len(hist) :
                      hist[i].cmd = "Marker" /\ hist[i].by \in VersionGated)
                => version = 1
          /\ wfState = "Completed" =>
                (Count(hist, "GetTimezone") = 1 /\ Succeeded("GetTimezone"))

C19_Witness ==
    /\ code \in MinRaised
    /\ DefaultHistory
    /\ wftError = "version"
    /\ reads = <<DefaultVersion>>

\* the pre-change routine issued GetIP and the timer and nothing else: the
\* instance was in its Sleep when the worker was restarted
SleptThroughDeploy ==
    /\ Len(hist) >= 2
    /\ hist[1].cmd = "GetIP" /\ hist[1].by = "GetAddressFromIP"
    /\ hist[2].cmd = "Timer" /\ hist[2].by = "GetAddressFromIP"
    /\ \A i \in 3..Len(hist) : hist[i].by = code

(* C20: an instance that was in its Sleep (history: GetIP and the timer)     *)
(* when the worker was restarted with the version-gated routine reads        *)
(* DefaultVersion, never invokes the timezone capability, and completes      *)
(* with the location only.                                                   *)
C20_SleeperReadsDefault ==
    (code \in VersionGated /\ SleptThroughDeploy) =>
        /\ version \in {NoVersion, DefaultVersion}
        /\ Count(hist, "GetTimezone") = 0
        /\ Count(hist, "Marker") = 0

(* C21: an instance that was in its Sleep when the worker was restarted with *)
(* the routine that inserts an unconditional timezone invocation after the   *)
(* Sleep fails with a non-determinism error when it wakes: it never gets to  *)
(* invoke the timezone capability and never completes.                       *)
C21_SleeperHitsNondeterminism ==
    (code = "GetAddressFromIP_BREAKING" /\ SleptThroughDeploy) =>
        /\ Count(hist, "GetTimezone") = 0
        /\ wfState # "Completed"

(* C22: the state of the monitor is a function of its recorded history:      *)
(* re-executing the routine against it after a worker restart reproduces     *)
(* isPaused, shouldStop, currentIP, checkInterval, totalChecks and history   *)
(* (and the last check time and result), so a pause applied before the       *)
(* restart is still in effect after it.                                      *)
C22_ReplayReproducesState ==
    [][ m_replays' # m_replays => UNCHANGED <<monState, checkTime>> ]_vars

C22_Witness ==
    /\ m_replays > 0
    /\ isPaused
    /\ totalChecks > 0
    /\ currentIP = "1.1.1.1"

(* C23: while the monitor is paused (from the step that applies a pause to   *)
(* the step that applies a resume) no GetLocationInfo invocation is started  *)
(* and totalChecks and history do not change, whatever timers fire and       *)
(* whatever other signals are applied.                                       *)
C23_PausedMeansNoChecks ==
    [][ isPaused => /\ UNCHANGED <<totalChecks, history>>
                    /\ checks' = checks ]_vars

C23_Witness ==
    /\ isPaused
    /\ now > 1
    /\ Len(applied) >= 2
    /\ checks = << >>
    /\ m_pc = "SelectBlocked"

(* C24: whenever the timezone capability returns without an error, the       *)
(* timezone it returns is not empty.                                         *)
C24_TimezoneNonEmpty ==
    \A i \in 1..Len(hist) :
        (hist[i].cmd = "GetTimezone" /\ hist[i].res = "ok") => hist[i].val # ""

(* C25: once a stop signal has been applied to the monitor, it starts no     *)
(* further GetLocationInfo invocation and totalChecks does not increase,     *)
(* whether or not it was paused.                                             *)
C25_NoCheckAfterStop ==
    [][ shouldStop => /\ checks' = checks
                      /\ totalChecks' = totalChecks ]_vars

\* a stop signal has been delivered to the instance
StopDelivered == \E i \in 1..Len(sent) : sent[i].name = "stop"

\* the run has used up the checks the model follows
ChecksExhausted ==
    m_pc = "AfterSelect" /\ ~isPaused /\ Len(checks) >= MaxTotalChecks

(* C26: if a stop signal is delivered to a running monitor and every check   *)
(* in flight returns, the monitor eventually completes with no error,        *)
(* whether it is paused or running, with MaxChecks = 0 too and with other    *)
(* signals pending (within the checks the model follows).                    *)
C26_StopCompletes ==
    StopDelivered ~> ((m_pc = "Done" /\ m_err = "nil") \/ ChecksExhausted)

C26_Witness ==
    /\ m_pc = "Done" /\ m_err = "nil" /\ shouldStop
    /\ isPaused
    /\ config.MaxChecks = 0
    /\ Len(applied) >= 3

(* C27: when every capability invocation returns and every timer fires,      *)
(* every started instance of GetAddressFromIP, GetAddressFromIPClean,        *)
(* GetAddressFromIPV1 and GetAddressFromIPV2 eventually is Completed or      *)
(* Failed.                                                                   *)
C27_Terminates ==
    (wfState = "Running") ~> (wfState \in {"Completed", "Failed"})

C27_Witness ==
    /\ wfState = "Completed"
    /\ code = "GetAddressFromIPClean"
    /\ restarts > 0
    /\ Count(hist, "Timer") = 1

(* C28: with MaxChecks > 0, totalChecks never exceeds MaxChecks, and once    *)
(* it has reached MaxChecks the monitor does nothing but leave the loop and  *)
(* complete without error; with MaxChecks = 0 the monitor completes only     *)
(* after a stop signal was applied.                                          *)
C28_MaxChecks ==
    /\ config.MaxChecks > 0 => totalChecks <= config.MaxChecks
    /\ (config.MaxChecks > 0 /\ totalChecks = config.MaxChecks) =>
           m_pc \in {"LoopTop", "Done"}
    /\ m_pc = "Done" => m_err = "nil"
    /\ (config.MaxChecks = 0 /\ m_pc = "Done") => shouldStop

C28_Witness ==
    /\ m_pc = "Done" /\ m_err = "nil"
    /\ config.MaxChecks = 2 /\ totalChecks = 2
    /\ ~shouldStop /\ ~isPaused

\* the entry the routine builds for the k-th check of this run
EntryOf(k) ==
    [Timestamp |-> checks[k].time,
     IP |-> checks[k].ip,
     Location |-> IF checks[k].res = "ok" THEN checks[k].val ELSE "",
     Error |-> IF checks[k].res = "ok" THEN "" ELSE checks[k].val]

\* every check the monitor has performed, in the order of the checks
AllEntries ==
    Earlier(totalChecks - ReturnedChecks)
        \o [k \in 1..ReturnedChecks |-> EntryOf(k)]

Min(a, b) == IF a < b THEN a ELSE b

\* the last n elements of a sequence
LastN(q, n) == SubSeq(q, Len(q) - Min(Len(q), n) + 1, Len(q))

(* C29: the monitor's history holds at most 50 entries, its length is        *)
(* min(totalChecks, 50), and it holds the most recent checks in the order    *)
(* they were performed.                                                      *)
C29_HistoryBounded ==
    /\ Len(history) <= HistoryLimit
    /\ Len(history) = Min(totalChecks, HistoryLimit)
    /\ history = LastN(AllEntries, HistoryLimit)

C29_Witness ==
    /\ MonitorQueryable
    /\ totalChecks > HistoryLimit + 1
    /\ Len(checks) = MaxTotalChecks
    /\ history[HistoryLimit].Error # ""

\* the routine takes the result of a check that did not succeed
FailedCheckReturns ==
    /\ m_pc = "ActivityWait"
    /\ m_pc' # "ActivityWait"
    /\ CurrentCheck.res # "ok"

(* C30: a failed GetLocationInfo check does not end the monitor: the routine *)
(* appends an entry with Error set and Location empty, sets lastResult to    *)
(* "ERROR: " and the error text, adds one to totalChecks and goes back to    *)
(* the top of its loop; every entry of the history has exactly one of        *)
(* Location and Error non-empty.                                             *)
C30_FailedCheckContinues ==
    /\ [][ FailedCheckReturns =>
             /\ m_pc' = "LoopTop"
             /\ m_err' = m_err
             /\ totalChecks' = totalChecks + 1
             /\ lastResult' = "ERROR: " \o CurrentCheck.val
             /\ history' # << >>
             /\ history'[Len(history')].Error = CurrentCheck.val
             /\ history'[Len(history')].Error # ""
             /\ history'[Len(history')].Location = "" ]_vars
    /\ [](\A i \in 1..Len(history) :
             (history[i].Location # "") # (history[i].Error # ""))

C30_Witness ==
    /\ m_pc = "ActivityWait"
    /\ Len(history) = 2
    /\ history[1].Error = "provider error"
    /\ history[2].Location # ""
    /\ lastResult = history[2].Location

(* C31: the monitor starts a check only after the timer of that iteration    *)
(* has fired, so (without cancellation) the first check is later than the    *)
(* start and two consecutive checks are never at the same time: applying a   *)
(* signal does not by itself start a check.                                  *)
C31_ChecksSpaced ==
    ~m_cancel =>
        /\ checks # << >> => checks[1].time > 1
        /\ \A k \in 1..(Len(checks) - 1) : checks[k + 1].time > checks[k].time

\* the check timers of the instance that are started and have not fired
OutstandingTimers == staleTimers + (IF timer = "pending" THEN 1 ELSE 0)

(* C32: a monitor has at most one check timer outstanding at any time: the   *)
(* timer of an iteration that a signal ended is not pending next to the      *)
(* timer of the next iteration.                                              *)
C32_OneTimer == OutstandingTimers <= 1

(* C33: the State that the status query of the monitor returns is "stopped"  *)
(* whenever a stop signal has been applied, "paused" whenever the instance   *)
(* is paused and not stopped, and "running" otherwise.                       *)
C33_StatusState ==
    answer.query = "status" =>
        answer.value.State = IF shouldStop THEN "stopped"
                             ELSE IF isPaused THEN "paused"
                             ELSE "running"

(* C34: the status of the lookup that a query can see only moves from        *)
(* "fetching location" to "complete" or to "failed" and never changes after  *)
(* that; the result query returns a non-empty value only while status is     *)
(* "complete", and the value is the one the lookup returns.                  *)
C34_LookupStatus ==
    /\ [][ status' # status =>
             \/ lk_pc = "NotStarted" /\ status' = "fetching location"
             \/ /\ status = "fetching location"
                /\ status' \in {"complete", "failed"} ]_vars
    /\ [](lookupResult # "" => status = "complete")
    /\ []((answer.query = "lookup-result" /\ answer.value # "") =>
             status = "complete")
    /\ []((lk_pc = "Done" /\ status = "complete") =>
             (lk_err = "nil" /\ lk_value = lookupResult))
    /\ []((lk_pc = "Done" /\ status # "complete") => lk_value = "")

C34_Witness ==
    /\ lk_pc = "Done" /\ status = "complete"
    /\ answer.query = "lookup-result"
    /\ answer.value = lk_value
    /\ lk_value # ""

(* C35: the summary the checker returns is a consistent snapshot of its      *)
(* target: it never reports a non-empty Result together with a status other  *)
(* than "complete", and the checker fails exactly when its status query      *)
(* failed.                                                                   *)
C35_ConsistentSummary ==
    sc_pc = "Done" =>
        IF sc_err = "nil"
        THEN /\ sc_status \in {"fetching location", "complete", "failed"}
             /\ sc_summary = Summary(TargetWorkflowID, sc_status, sc_result)
             /\ sc_result # "" => sc_status = "complete"
        ELSE sc_status = "" /\ sc_summary = ""

(* C36: RecordLookup invocations made by different instances return          *)
(* different correlation tokens (so compensating one instance's token cannot *)
(* remove a record of the other).                                            *)
C36_TokensDistinct ==
    \A i, j \in Instances :
        (i # j /\ inst[i].recordedIp # "" /\ inst[j].recordedIp # "") =>
            inst[i].recordedIp # inst[j].recordedIp

\* the calls that have returned
DoneCalls == {c \in CallIds : calls[c].pc = "done"}

\* no call is between its Lock and its return
Quiescent == \A c \in CallIds : calls[c].pc \in {"new", "lock", "done"}

\* what the claim says one call does to the cache when it runs alone
AloneEffect(m, c) ==
    IF calls[c].op = "RecordLookup"
    THEN [k \in DOMAIN m \cup {calls[c].id} |->
             IF k = calls[c].id THEN calls[c].arg ELSE m[k]]
    ELSE IF calls[c].id \in DOMAIN m
    THEN [k \in DOMAIN m \ {calls[c].id} |-> m[k]]
    ELSE m

\* the caches that running the calls of S one after the other, in any order,
\* can leave
RECURSIVE SequentialResults(_)
SequentialResults(S) ==
    IF S = {} THEN {EmptyCache}
    ELSE UNION {{AloneEffect(m, c) : m \in SequentialResults(S \ {c})} : c \in S}

\* a CompensateLookup call takes a step
CompensateSteps(c) ==
    /\ calls[c].op = "CompensateLookup"
    /\ calls[c].pc \in {"lookup", "delete"}
    /\ calls'[c] # calls[c]

(* C37: CompensateLookup(token) removes exactly the cache record keyed by    *)
(* the token and leaves every other record as it is; for a token that is not *)
(* in the cache (compensated already, or the cache is empty) it changes      *)
(* nothing and returns no error; concurrent RecordLookup and                 *)
(* CompensateLookup calls leave the cache as some sequential order of the    *)
(* calls does.                                                               *)
C37_CompensateFrame ==
    /\ [][ \A c \in CallIds : CompensateSteps(c) =>
             /\ DOMAIN cache' = IF calls'[c].pc = "unlock"
                                THEN DOMAIN cache \ {calls[c].id}
                                ELSE DOMAIN cache
             /\ \A k \in DOMAIN cache' : cache'[k] = cache[k]
             /\ (calls[c].pc = "lookup" /\ calls[c].id \notin DOMAIN cache) =>
                    (cache' = cache /\ calls'[c].pc = "unlock")
             /\ calls'[c].pc = "unlock" => calls'[c].err = "nil" ]_vars
    /\ [](\A c \in DoneCalls : calls[c].err = "nil")
    /\ [](Quiescent => cache \in SequentialResults(DoneCalls))

C37_Witness ==
    /\ \A c \in CallIds : calls[c].pc = "done"
    /\ calls[1].op = "RecordLookup" /\ calls[2].op = "RecordLookup"
    /\ calls[1].id # calls[2].id
    /\ calls[3].op = "CompensateLookup" /\ calls[3].ok
    /\ Cardinality(DOMAIN cache) = 1

(* C38: every signal delivered to the monitor before it completes has been   *)
(* applied when it completes: no signal is left in its channel when the      *)
(* routine returns.                                                          *)
C38_NoSignalLeft ==
    (m_pc = "Done" /\ ~m_cancel) =>
        /\ \A n \in SignalNames : chans[n] = << >>
        /\ Len(applied) = Len(sent)

-----------------------------------------------------------------------------
(* The starters and the worker on one task queue *)

InitQueue ==
    /\ InitOrch /\ code = "GetAddressFromIP"
    /\ InitMon /\ config.MaxChecks = 0
    /\ InitLookup
    /\ NoPair
    /\ NoCalls
    /\ InitDispatch

NextQueue ==
    \/ \E t \in StarterTypes : StarterStarts(t) /\ UNCHANGED dispatchFrame
    \/ \E t \in StarterTypes : WorkerExecutes(t) /\ UNCHANGED dispatchFrame
    \/ \E t \in StarterTypes : WorkerRejects(t) /\ UNCHANGED dispatchFrame
    \/ \E t \in StarterTypes : TaskRetried(t) /\ UNCHANGED dispatchFrame
    \/ \E t \in StarterTypes : ActivityRuns(t) /\ UNCHANGED dispatchFrame
    \/ \E t \in StarterTypes : ActivityRejected(t) /\ UNCHANGED dispatchFrame
    \/ \E t \in StarterTypes : WorkflowCompletes(t) /\ UNCHANGED dispatchFrame

SpecQueue == InitQueue /\ [][NextQueue]_vars

(* C39: under the main_clean worker, no instance a starter started on the   *)
(* task queue is left with a workflow task or an activity task the worker   *)
(* cannot execute: every started type and every activity it invokes is      *)
(* registered.                                                              *)
C39_StartedIsExecuted ==
    workerProgram = "main_clean" =>
        \A t \in StarterTypes :
            tasks[t].state \notin {"taskFailed", "activityFailed"}

====
